---- MODULE Spec2Model ----
(***************************************************************************)
(* Lifecycle controllers of the Payara tooling for VS Code:                *)
(*   - PayaraMicroInstanceController (startMicro / reloadMicro / stopMicro *)
(*     and the callbacks they hand to the Maven launcher),                 *)
(*   - Maven.fireCommand (the process launcher),                           *)
(*   - PayaraInstanceController (server registry, start / restart / stop,  *)
(*     liveness probes, deployApp).                                        *)
(*                                                                         *)
(* JavaScript runs every handler to completion on one thread, so each      *)
(* handler (a user command, a process event, an HTTP response, a timer)    *)
(* is one action.  `await x.setState(s)` assigns the state before the      *)
(* handler suspends and resumes it in a microtask, ahead of any other      *)
(* event, so the code that follows belongs to the same action.             *)
(*                                                                         *)
(* Specifications:                                                         *)
(*   SpecMicro     the lifecycle of one Payara Micro instance              *)
(*   SpecServer    the lifecycle of one registered Payara Server           *)
(*   Spec          either of the two (instances are independent: the       *)
(*                 handlers of one instance read and write that instance   *)
(*                 alone)                                                  *)
(*   SpecRegistry  the registry of servers: loading, adding, renaming,     *)
(*                 removing, and the process-table probe of a new server   *)
(*   SpecApps      the applications of one running server: undeploy,       *)
(*                 enable, disable, and the server's stop                  *)
(*   SpecPair      a micro instance and a server at the same time          *)
(*   SpecServerLive  SpecServer, with every pending probe and response of  *)
(*                 a deploy eventually served                              *)
(*   SpecGenerator the wizard that generates a Payara Micro project        *)
(*   SpecBuild     the builds of Maven.buildProject                        *)
(***************************************************************************)
EXTENDS Integers, Sequences, FiniteSets, Bags, TLC

(***************************************************************************)
(* Bounds of the model                                                     *)
(***************************************************************************)
\* processes of one instance that run at the same time
MaxProcs == 2
\* admin calls, probes and timers of one server that are pending at the same time
MaxTasks == 2
\* attempts of a liveness probe before its deadline (timeoutMs / intervalMs)
ProbeTries == 2
\* processes of one server whose exit is still to come
MaxLive == 1
\* servers the registry holds
MaxServers == 2

(***************************************************************************)
(* InstanceState                                                           *)
(***************************************************************************)
STOPPED == "STOPPED"
LODING == "LODING"
RUNNING == "RUNNING"
RESTARTING == "RESTARTING"

InstanceState == {STOPPED, LODING, RUNNING, RESTARTING}

\* the micro instance of the workspace, the server of the configuration
Micros == {"m1"}
Servers == {"s1"}

(***************************************************************************)
(* Text.  A string is a sequence of tokens; the literals the code searches *)
(* for are single tokens, as are the newline and the blank.                *)
(***************************************************************************)
ReadyMarker == "Payara Micro URLs:"
DebugMarker == "Listening for transport dt_socket at address:"
NL == "\n"
SP == " "
Url == "http://localhost:8080"
Other == "..."

\* the output chunks a started process emits
Chunks ==
    { <<Other, NL>>,
      <<DebugMarker, Other, NL>>,
      <<ReadyMarker>>,
      <<ReadyMarker, NL, SP, Url, NL>> }

\* String.prototype.indexOf: the 0-based position of the first match, or -1
IndexOf(data, tok) ==
    IF \E k \in 1..Len(data) : data[k] = tok
    THEN (CHOOSE k \in 1..Len(data) :
              data[k] = tok /\ \A j \in 1..(k - 1) : data[j] # tok) - 1
    ELSE -1

\* String.prototype.substring(from): the text from the 0-based position on
Substring(data, from) == SubSeq(data, from + 1, Len(data))

\* String.prototype.split(sep): the pieces between the separators
RECURSIVE Split(_, _)
Split(data, sep) ==
    LET k == IndexOf(data, sep)
    IN  IF k = -1 THEN <<data>>
        ELSE <<SubSeq(data, 1, k)>> \o Split(Substring(data, k + 1), sep)

(***************************************************************************)
(* User-visible messages                                                   *)
(***************************************************************************)
NoMsg == "none"
MsgMicroRunning == "Payara Micro instance already running."
MsgMicroNotRunning == "Payara Micro instance not running."
MsgServerRunning == "Payara Server instance already running."
MsgServerNotRunning == "Payara Server instance not running."
MsgUnableStart == "Unable to start the Payara Server."
MsgUnableRestart == "Unable to restart the Payara Server."
MsgUnableDeploy ==
    "Unable to deploy the application as Payara Server instance not running."
MsgThrown == "uncaught exception"
MsgNameEmpty == "Server name cannot be empty"
MsgNameExists ==
    "Payar Server already exist with the given name, please re-enter"
MsgDuplicateName == "DuplicateNameError"
MsgPathInvalid == "Selected Payara Server path is invalid."

VARIABLES
    mState,     \* PayaraMicroInstance.state
    mDebug,     \* PayaraMicroInstance.debug
    mHomePage,  \* PayaraMicroInstance.homePage: <<>> is undefined, <<s>> is s
    mProcess,   \* PayaraMicroInstance.process: "undefined", or the handle of a
                \* process with ("pid") or without ("nopid") a pid
    mProcs,     \* the processes of the instance whose listeners can still
                \* fire (a bag of listener records)
    servers,    \* PayaraInstanceProvider's list of server instances
    sName,      \* PayaraServerInstance.name
    wizard,     \* the step the registration wizard waits in, with its state
    generator,  \* the project wizard: its step, the partial project, the
                \* steps answered, and the calls of its completion callback
    builds,     \* the builds of buildProject: whether the listeners of the
                \* process can still fire, and the artifacts passed to the
                \* callback
    sState,     \* PayaraServerInstance.state
    sDebug,     \* PayaraServerInstance.debug
    sOutput,    \* the server's output sink is connected
    sLive,      \* server processes whose 'exit' listener can still fire
    sTasks,     \* pending admin calls, probes and timers (a bag)
    sApps,      \* PayaraServerInstance's list of applications
    aEnabled,   \* ApplicationInstance.enabled
    aCalls,     \* pending admin calls about applications (a bag)
    last        \* the handler that ran last and what it did

microVars == <<mState, mDebug, mHomePage, mProcess, mProcs>>
registryVars == <<servers, sName, wizard, generator, builds>>
lifeVars == <<sState, sDebug, sOutput, sLive, sTasks>>
appVars == <<sApps, aEnabled, aCalls>>
serverVars == <<servers, sName, wizard, generator, builds, sState, sDebug,
                sOutput, sLive, sTasks, sApps, aEnabled, aCalls>>
vars == <<mState, mDebug, mHomePage, mProcess, mProcs,
          servers, sName, wizard, generator, builds, sState, sDebug, sOutput,
          sLive, sTasks, sApps, aEnabled, aCalls, last>>

(***************************************************************************)
(* The record of the handler that ran last: the operation, its instance,   *)
(* the process, call or probe it belongs to, its input, the message shown, *)
(* the states it passed to setState in order, and what else it triggered.  *)
(* A stop request also records whether the handler right before it was the *)
(* successful completion of a stop of the same instance (after).           *)
(***************************************************************************)
None == [kind |-> "none"]

\* the handler h completed a stop: the exit or error callback of a stop
\* command, or the response of stop-domain
StopCompleted(h) ==
    \/ h.op \in {"onExit", "onError"} /\ h.proc.kind = "stop"
    \/ h.op = "stopResponse"

\* the handler h completed a stop that succeeded
StopSucceeded(h) ==
    \/ h.op \in {"onExit", "onError"} /\ h.proc.kind = "stop"
    \/ h.op = "stopResponse" /\ h.arg = 200

Ev(op, i, p, arg, msg, sets, did) ==
    [op |-> op, inst |-> i, proc |-> p, arg |-> arg, msg |-> msg,
     sets |-> sets, did |-> did,
     after |-> IF op \in {"stopMicro", "stopServer"}
               THEN IF StopCompleted(last) /\ last.inst = i
                    THEN IF StopSucceeded(last) THEN "stop" ELSE "failed stop"
                    ELSE ""
               ELSE ""]

\* no project wizard runs
NoGenerator == [step |-> "idle", project |-> <<>>, answered |-> {}, called |-> 0]

\* a bag with one copy of r removed, and with one copy of r added
Without(bag, r) == bag (-) SetToBag({r})
With(bag, r) == bag (+) SetToBag({r})

(***************************************************************************)
(* PayaraMicroInstance (state holder)                                      *)
(***************************************************************************)
MicroIsStopped(i) == mState[i] = STOPPED
MicroIsStarted(i) == mState[i] = RUNNING

(***************************************************************************)
(* Maven.fireCommand: what a launch can come to                            *)
(*   "throw"  Maven home, executable or workspace missing: an exception    *)
(*   "nopid"  cp.spawn returned a ChildProcess without pid: no listener    *)
(*            is registered, the handle is returned                        *)
(*   "ok"     the process runs with data, exit and error listeners         *)
(* startPayaraMicro and reloadPayaraMicro may also return undefined        *)
(* ("none") before they reach fireCommand.                                 *)
(*                                                                         *)
(* mProcs[i] holds the processes of instance i that still have listeners   *)
(* to call; a process leaves it with its 'exit' event (output delivered    *)
(* after 'exit' is left out).  An 'error' event does not end the process.  *)
(* A process without pid never calls back and is not held.                 *)
(***************************************************************************)
FireOutcomes == {"throw", "nopid", "ok"}

\* the listeners fireCommand wires for a process with a pid; the first
\* definition is a start that sets up the debug configuration in any case
\*   kind  the command: "start", "reload" or "stop"
\*   dc    startMicro's debugConfig is still set (closure variable)
\*   ran   this start's onData has already called setState(RUNNING)
\*   cur   PayaraMicroInstance.process is this process
FireCommandDebugAlways(kind, dc) ==
    [kind |-> kind, dc |-> TRUE, ran |-> FALSE, cur |-> kind = "start"]

FireCommand(kind, dc) ==
    [kind |-> kind, dc |-> dc, ran |-> FALSE, cur |-> kind = "start"]

CanSpawn(i) == BagCardinality(mProcs[i]) < MaxProcs

\* PayaraMicroInstance.setProcess: the processes after the handle is replaced
Unhandled(procs) ==
    LET old == BagToSet(procs)
        new == {[r EXCEPT !.cur = FALSE] : r \in old}
    IN  [n \in new |->
            (IF n \in old THEN procs[n] ELSE 0)
              + (IF [n EXCEPT !.cur = TRUE] \in old /\ ~n.cur
                 THEN procs[[n EXCEPT !.cur = TRUE]] ELSE 0)]

(***************************************************************************)
(* PayaraMicroInstanceController.startMicro                                *)
(***************************************************************************)
\* a start that does not look at the state
StartMicroAnyway(i, debug) ==
    /\ i \in DOMAIN mState
    /\ ~MicroIsStopped(i)
    /\ CanSpawn(i)
    /\ mDebug' = [mDebug EXCEPT ![i] = debug]
    /\ mState' = [mState EXCEPT ![i] = LODING]
    /\ mProcs' = [mProcs EXCEPT ![i] =
                     With(Unhandled(@), FireCommand("start", debug))]
    /\ mProcess' = [mProcess EXCEPT ![i] = "pid"]
    /\ last' = Ev("startMicro", i, FireCommand("start", debug), debug, NoMsg,
                  <<LODING>>, {"spawn"})
    /\ UNCHANGED mHomePage
    /\ UNCHANGED serverVars

StartMicroRejected(i, debug) ==
    /\ i \in DOMAIN mState
    /\ ~MicroIsStopped(i)
    /\ last' = Ev("startMicro", i, None, debug, MsgMicroRunning, <<>>, {})
    /\ UNCHANGED microVars
    /\ UNCHANGED serverVars

StartMicroLaunch(i, debug, outcome) ==
    /\ i \in DOMAIN mState
    /\ MicroIsStopped(i)
    /\ outcome = "ok" => CanSpawn(i)
    /\ mDebug' = [mDebug EXCEPT ![i] = debug]
    /\ UNCHANGED mHomePage
    /\ UNCHANGED serverVars
    /\ CASE outcome = "none" ->
              \* startPayaraMicro returned undefined: back to STOPPED
              /\ mState' = [mState EXCEPT ![i] = STOPPED]
              /\ UNCHANGED <<mProcess, mProcs>>
              /\ last' = Ev("startMicro", i, None, debug, NoMsg,
                            <<LODING, STOPPED>>, {})
         [] outcome = "throw" ->
              \* fireCommand threw after setState(LODING)
              /\ mState' = [mState EXCEPT ![i] = LODING]
              /\ UNCHANGED <<mProcess, mProcs>>
              /\ last' = Ev("startMicro", i, None, debug, MsgThrown,
                            <<LODING>>, {})
         [] outcome = "nopid" ->
              \* the handle of a process that was never spawned is kept
              /\ mState' = [mState EXCEPT ![i] = LODING]
              /\ mProcs' = [mProcs EXCEPT ![i] = Unhandled(@)]
              /\ mProcess' = [mProcess EXCEPT ![i] = "nopid"]
              /\ last' = Ev("startMicro", i, None, debug, NoMsg,
                            <<LODING>>, {"nopid"})
         [] OTHER ->
              /\ mState' = [mState EXCEPT ![i] = LODING]
              /\ mProcs' = [mProcs EXCEPT ![i] =
                               With(Unhandled(@), FireCommand("start", debug))]
              /\ mProcess' = [mProcess EXCEPT ![i] = "pid"]
              /\ last' = Ev("startMicro", i, FireCommand("start", debug),
                            debug, NoMsg, <<LODING>>, {"spawn"})

StartMicro(i, debug, outcome) ==
    \/ /\ outcome = "ok"
       /\ StartMicroRejected(i, debug)
    \/ StartMicroLaunch(i, debug, outcome)

(***************************************************************************)
(* PayaraMicroInstanceController.parseApplicationUrl                       *)
(***************************************************************************)
\* whether the chunk holds the ready marker (the function's result)
ParseApplicationUrl(data) == IndexOf(data, ReadyMarker) > -1

\* the home page after parseApplicationUrl(data)
ParsedHomePage(data, old) ==
    LET urlIndex == IndexOf(data, ReadyMarker)
        lines == Split(Substring(data, urlIndex), NL)
    IN  IF urlIndex > -1 /\ Len(lines) > 1 THEN <<lines[2]>> ELSE old

\* whether parseApplicationUrl opens the browser: the home page is set and
\* not empty
OpensHomePage(page) == page # <<>> /\ page # << <<>> >>

(***************************************************************************)
(* startMicro's onData callback                                            *)
(***************************************************************************)
\* an onData that reads the output only once the instance runs, and one
\* that always reads it
OnDataGuardInverted(i) == MicroIsStarted(i)
OnDataUnguarded(i) == TRUE

OnDataGuard(i) == ~MicroIsStarted(i)

MicroOnData(i, pr, data) ==
    /\ i \in DOMAIN mState
    /\ BagIn(pr, mProcs[i])
    /\ pr.kind = "start"
    /\ LET attach == OnDataGuard(i) /\ pr.dc /\ IndexOf(data, DebugMarker) > -1
           ready == OnDataGuard(i) /\ ParseApplicationUrl(data)
           page == IF ready THEN ParsedHomePage(data, mHomePage[i])
                   ELSE mHomePage[i]
           after == [pr EXCEPT !.dc = IF attach THEN FALSE ELSE @,
                               !.ran = IF ready THEN TRUE ELSE @]
       IN  /\ mProcs' = [mProcs EXCEPT ![i] = With(Without(@, pr), after)]
           /\ mHomePage' = [mHomePage EXCEPT ![i] = page]
           /\ mState' = [mState EXCEPT ![i] = IF ready THEN RUNNING ELSE @]
           /\ last' = Ev("onData", i, pr, data, NoMsg,
                         IF ready THEN <<RUNNING>> ELSE <<>>,
                         (IF attach THEN {"attach"} ELSE {})
                           \cup (IF ready /\ OpensHomePage(page)
                                 THEN {"open"} ELSE {}))
    /\ UNCHANGED <<mDebug, mProcess>>
    /\ UNCHANGED serverVars

(***************************************************************************)
(* The exit and error callbacks of startMicro, reloadMicro and stopMicro   *)
(***************************************************************************)
\* the state an exit or error callback of a process of this kind sets
CallbackStateRunning(kind) == RUNNING
CallbackStateRestarting(kind) == IF kind = "reload" THEN RESTARTING ELSE STOPPED

CallbackState(kind) == IF kind = "reload" THEN RUNNING ELSE STOPPED

\* a callback that clears the debug flag of every instance it can reach
MicroCallbackAll(i, pr, op, arg) ==
    /\ mProcs' = [mProcs EXCEPT ![i] =
                     IF op = "onExit" THEN Without(@, pr) ELSE @]
    /\ mState' = [mState EXCEPT ![i] = CallbackState(pr.kind)]
    /\ mDebug' = [mDebug EXCEPT ![i] = IF pr.kind = "stop" THEN FALSE ELSE @]
    /\ sDebug' = [s \in DOMAIN sDebug |->
                     IF pr.kind = "stop" THEN FALSE ELSE sDebug[s]]
    /\ last' = Ev(op, i, pr, arg, NoMsg, <<CallbackState(pr.kind)>>, {})
    /\ UNCHANGED <<mHomePage, mProcess>>
    /\ UNCHANGED <<registryVars, sState, sOutput, sLive, sTasks, appVars>>

MicroCallback(i, pr, op, arg) ==
    /\ mProcs' = [mProcs EXCEPT ![i] =
                     IF op = "onExit" THEN Without(@, pr) ELSE @]
    /\ mState' = [mState EXCEPT ![i] = CallbackState(pr.kind)]
    /\ mDebug' = [mDebug EXCEPT ![i] = IF pr.kind = "stop" THEN FALSE ELSE @]
    /\ last' = Ev(op, i, pr, arg, NoMsg, <<CallbackState(pr.kind)>>, {})
    /\ UNCHANGED <<mHomePage, mProcess>>
    /\ UNCHANGED serverVars

\* the 'exit' event of a process that has its listeners
MicroOnExit(i, pr, code) ==
    /\ i \in DOMAIN mState
    /\ BagIn(pr, mProcs[i])
    /\ MicroCallback(i, pr, "onExit", code)

\* the 'error' event of a process that has its listeners
MicroOnError(i, pr) ==
    /\ i \in DOMAIN mState
    /\ BagIn(pr, mProcs[i])
    /\ MicroCallback(i, pr, "onError", "")

(***************************************************************************)
(* PayaraMicroInstanceController.reloadMicro                               *)
(***************************************************************************)
ReloadMicroRejected(i) ==
    /\ i \in DOMAIN mState
    /\ MicroIsStopped(i)
    /\ last' = Ev("reloadMicro", i, None, "", MsgMicroNotRunning, <<>>, {})
    /\ UNCHANGED microVars
    /\ UNCHANGED serverVars

ReloadMicroLaunch(i, outcome) ==
    /\ i \in DOMAIN mState
    /\ ~MicroIsStopped(i)
    /\ outcome = "ok" => CanSpawn(i)
    /\ UNCHANGED <<mDebug, mHomePage, mProcess>>
    /\ UNCHANGED serverVars
    /\ CASE outcome = "none" ->
              \* reload is not supported for an UberJar: no process
              /\ mState' = [mState EXCEPT ![i] = RUNNING]
              /\ UNCHANGED mProcs
              /\ last' = Ev("reloadMicro", i, None, "", NoMsg,
                            <<LODING, RUNNING>>, {})
         [] outcome = "throw" ->
              /\ mState' = [mState EXCEPT ![i] = LODING]
              /\ UNCHANGED mProcs
              /\ last' = Ev("reloadMicro", i, None, "", MsgThrown,
                            <<LODING>>, {})
         [] outcome = "nopid" ->
              \* a handle is returned, so RUNNING is not restored
              /\ mState' = [mState EXCEPT ![i] = LODING]
              /\ UNCHANGED mProcs
              /\ last' = Ev("reloadMicro", i, None, "", NoMsg,
                            <<LODING>>, {"nopid"})
         [] OTHER ->
              /\ mState' = [mState EXCEPT ![i] = LODING]
              /\ mProcs' = [mProcs EXCEPT ![i] =
                               With(@, FireCommand("reload", FALSE))]
              /\ last' = Ev("reloadMicro", i, FireCommand("reload", FALSE),
                            "", NoMsg, <<LODING>>, {"spawn"})

ReloadMicro(i, outcome) ==
    \/ /\ outcome = "ok"
       /\ ReloadMicroRejected(i)
    \/ ReloadMicroLaunch(i, outcome)

(***************************************************************************)
(* PayaraMicroInstanceController.stopMicro                                 *)
(***************************************************************************)
StopMicroRejected(i) ==
    /\ i \in DOMAIN mState
    /\ MicroIsStopped(i)
    /\ last' = Ev("stopMicro", i, None, "", MsgMicroNotRunning, <<>>, {})
    /\ UNCHANGED microVars
    /\ UNCHANGED serverVars

StopMicroLaunch(i, outcome) ==
    /\ i \in DOMAIN mState
    /\ ~MicroIsStopped(i)
    /\ outcome = "ok" => CanSpawn(i)
    /\ UNCHANGED <<mState, mDebug, mHomePage, mProcess>>
    /\ UNCHANGED serverVars
    /\ CASE outcome = "throw" ->
              /\ UNCHANGED mProcs
              /\ last' = Ev("stopMicro", i, None, "", MsgThrown, <<>>, {})
         [] outcome = "nopid" ->
              /\ UNCHANGED mProcs
              /\ last' = Ev("stopMicro", i, None, "", NoMsg, <<>>, {"nopid"})
         [] OTHER ->
              /\ mProcs' = [mProcs EXCEPT ![i] =
                               With(@, FireCommand("stop", FALSE))]
              /\ last' = Ev("stopMicro", i, FireCommand("stop", FALSE),
                            "", NoMsg, <<>>, {"spawn"})

StopMicro(i, outcome) ==
    \/ /\ outcome = "ok"
       /\ StopMicroRejected(i)
    \/ StopMicroLaunch(i, outcome)

MicroNext ==
    \/ \E i \in Micros, debug \in BOOLEAN, outcome \in FireOutcomes \cup {"none"} :
           StartMicro(i, debug, outcome)
    \/ \E i \in Micros, outcome \in FireOutcomes \cup {"none"} :
           ReloadMicro(i, outcome)
    \/ \E i \in Micros, outcome \in FireOutcomes : StopMicro(i, outcome)
    \/ \E i \in Micros \cap DOMAIN mProcs : \E pr \in BagToSet(mProcs[i]), data \in Chunks :
           MicroOnData(i, pr, data)
    \/ \E i \in Micros \cap DOMAIN mProcs : \E pr \in BagToSet(mProcs[i]), code \in {0, 1} :
           MicroOnExit(i, pr, code)
    \/ \E i \in Micros \cap DOMAIN mProcs : \E pr \in BagToSet(mProcs[i]) :
           MicroOnError(i, pr)

\* the extension opened on a workspace with a Payara Micro project
InitMicro ==
    /\ mState = [i \in Micros |-> STOPPED]
    /\ mDebug = [i \in Micros |-> FALSE]
    /\ mHomePage = [i \in Micros |-> <<>>]
    /\ mProcess = [i \in Micros |-> "undefined"]
    /\ mProcs = [i \in Micros |-> EmptyBag]
    /\ servers = <<>>
    /\ sName = <<>>
    /\ sState = <<>>
    /\ sDebug = <<>>
    /\ sOutput = <<>>
    /\ sLive = <<>>
    /\ sTasks = <<>>
    /\ sApps = <<>>
    /\ aEnabled = <<>>
    /\ aCalls = <<>>
    /\ wizard = [step |-> "idle", path |-> ""]
    /\ generator = NoGenerator
    /\ builds = <<>>
    /\ last = Ev("init", "", None, "", NoMsg, <<>>, {})

SpecMicro == InitMicro /\ [][MicroNext]_vars

(***************************************************************************)
(* PayaraServerInstance (state holder)                                     *)
(***************************************************************************)
ServerIsStopped(s) == sState[s] = STOPPED
ServerIsStarted(s) == sState[s] = RUNNING

ServerIsRestarting(s) == sState[s] = RESTARTING

\* a setStarted that marks the instance running whatever it is told
SetStartedAlways(started) == RUNNING

\* PayaraServerInstance.setStarted
SetStarted(started) == IF started THEN RUNNING ELSE STOPPED

(***************************************************************************)
(* What is pending for a server: an admin call awaiting its response, a    *)
(* liveness probe that is polling, the settle timer of a stop.             *)
(*   kind   "restart-domain", "stop-domain", "rest", "jps" or "settle"     *)
(*   from   the operation that started a probe                             *)
(*   tries  the attempts a probe has made                                  *)
(*   debug  the debug mode a restart asked for                             *)
(*   cb     the callback the operation was given: NoCallback, or the      *)
(*          deploy closure of deployApp(uri), written as its uri           *)
(***************************************************************************)
Task(kind, from, tries, debug, cb) ==
    [kind |-> kind, from |-> from, tries |-> tries, debug |-> debug, cb |-> cb]

NoCallback == "none"

AdminCall(kind, debug, cb) == Task(kind, "", 0, debug, cb)
Probe(kind, from, cb) == Task(kind, from, 0, FALSE, cb)
SettleTimer == Task("settle", "", 0, FALSE, NoCallback)

Room(s, n) == BagCardinality(sTasks[s]) + n <= MaxTasks

(***************************************************************************)
(* deployApp's deploy closure: deploy(status) for request r                *)
(***************************************************************************)
IsArtifact(uri) == uri \in {"app.war", "app.jar"}

Uris == {"app.war", "project"}

\* a closure that does not look at the status
DeployRegardless(uri, status) ==
    IF IsArtifact(uri) THEN "deployApplication"
    ELSE "buildAndDeployApplication"

\* what the closure does: the upload it attempts, or "aborted"
DeployOutcome(uri, status) ==
    IF status
    THEN IF IsArtifact(uri) THEN "deployApplication"
         ELSE "buildAndDeployApplication"
    ELSE "aborted"

Uploads == {"deployApplication", "buildAndDeployApplication"}

\* what callback(status) does, for the handler's record: the call, and the
\* upload the deploy closure attempts
Called(cb, status) ==
    IF cb = NoCallback THEN {}
    ELSE {IF status THEN "callback(true)" ELSE "callback(false)"}
           \cup (IF DeployOutcome(cb, status) \in Uploads
                 THEN {DeployOutcome(cb, status)} ELSE {})

\* the message the deploy closure shows
CalledMsg(cb, status) ==
    IF cb # NoCallback /\ DeployOutcome(cb, status) = "aborted"
    THEN MsgUnableDeploy ELSE NoMsg

(***************************************************************************)
(* PayaraInstanceController.startServer                                    *)
(*   pid: whether StartTask.startServer returned a process with a pid      *)
(***************************************************************************)
StartServerDo(s, debug, cb, pid, op, arg) ==
    IF ~ServerIsStopped(s)
    THEN /\ last' = Ev(op, s, None, arg, MsgServerRunning, <<>>, {})
         /\ UNCHANGED lifeVars
    ELSE IF pid
    THEN /\ sLive[s] < MaxLive
         /\ Room(s, 1)
         /\ sDebug' = [sDebug EXCEPT ![s] = debug]
         /\ sState' = [sState EXCEPT ![s] = LODING]
         /\ sLive' = [sLive EXCEPT ![s] = @ + 1]
         /\ sTasks' = [sTasks EXCEPT ![s] = With(@, Probe("rest", "start", cb))]
         /\ last' = Ev(op, s, Probe("rest", "start", cb), arg, NoMsg,
                       <<LODING>>, {"spawn", "probe"})
         /\ UNCHANGED sOutput
    ELSE /\ last' = Ev(op, s, None, arg, NoMsg, <<>>, {"nopid"})
         /\ UNCHANGED lifeVars

StartServer(s, debug, pid) ==
    /\ s \in DOMAIN sState
    /\ ServerIsStopped(s) \/ pid
    /\ StartServerDo(s, debug, NoCallback, pid, "startServer", debug)
    /\ UNCHANGED <<registryVars, microVars, appVars>>

\* an exit listener that does not look whether the server restarts
ServerOnExitAlways(s) ==
    /\ s \in DOMAIN sState
    /\ sLive[s] > 0
    /\ sLive' = [sLive EXCEPT ![s] = @ - 1]
    /\ sState' = [sState EXCEPT ![s] = SetStarted(FALSE)]
    /\ last' = Ev("serverExit", s, None, "", NoMsg, <<SetStarted(FALSE)>>, {})
    /\ UNCHANGED <<sDebug, sOutput, sTasks>>
    /\ UNCHANGED <<registryVars, microVars, appVars>>

\* the 'exit' listener startServer registers on the process
ServerOnExit(s) ==
    /\ s \in DOMAIN sState
    /\ sLive[s] > 0
    /\ sLive' = [sLive EXCEPT ![s] = @ - 1]
    /\ IF ~ServerIsRestarting(s)
       THEN /\ sState' = [sState EXCEPT ![s] = SetStarted(FALSE)]
            /\ last' = Ev("serverExit", s, None, "", NoMsg,
                          <<SetStarted(FALSE)>>, {})
       ELSE /\ UNCHANGED sState
            /\ last' = Ev("serverExit", s, None, "", NoMsg, <<>>, {})
    /\ UNCHANGED <<sDebug, sOutput, sTasks>>
    /\ UNCHANGED <<registryVars, microVars, appVars>>

(***************************************************************************)
(* PayaraInstanceController.restartServer and stopServer: the request      *)
(***************************************************************************)
RestartServerDo(s, debug, cb, op, arg) ==
    IF ServerIsStopped(s)
    THEN /\ last' = Ev(op, s, None, arg, MsgServerNotRunning, <<>>, {})
         /\ UNCHANGED lifeVars
    ELSE /\ Room(s, 1)
         /\ sTasks' = [sTasks EXCEPT ![s] =
                          With(@, AdminCall("restart-domain", debug, cb))]
         /\ last' = Ev(op, s, AdminCall("restart-domain", debug, cb), arg,
                       NoMsg, <<>>, {"invoke"})
         /\ UNCHANGED <<sState, sDebug, sOutput, sLive>>

RestartServer(s, debug) ==
    /\ s \in DOMAIN sState
    /\ RestartServerDo(s, debug, NoCallback, "restartServer", debug)
    /\ UNCHANGED <<registryVars, microVars, appVars>>

StopServer(s) ==
    /\ s \in DOMAIN sState
    /\ IF ServerIsStopped(s)
       THEN /\ last' = Ev("stopServer", s, None, "", MsgServerNotRunning,
                          <<>>, {})
            /\ UNCHANGED lifeVars
       ELSE /\ Room(s, 1)
            /\ sTasks' = [sTasks EXCEPT ![s] =
                             With(@, AdminCall("stop-domain", FALSE, NoCallback))]
            /\ last' = Ev("stopServer", s, AdminCall("stop-domain", FALSE, NoCallback),
                          "", NoMsg, <<>>, {"invoke"})
            /\ UNCHANGED <<sState, sDebug, sOutput, sLive>>
    /\ UNCHANGED <<registryVars, microVars, appVars>>

(***************************************************************************)
(* The response callbacks of restartServer and stopServer                  *)
(***************************************************************************)
StatusCodes == {200, 500}

\* res.statusCode === 200, in the response callback of restart-domain and
\* of stop-domain
RestartAcceptedAlways(status) == TRUE

RestartAccepted(status) == status = 200

\* a stop handler that takes every response for a success
StopAcceptedAlways(status) == TRUE

StopAccepted(status) == status = 200

RestartResponse(s, t, status) ==
    /\ s \in DOMAIN sState
    /\ BagIn(t, sTasks[s])
    /\ t.kind = "restart-domain"
    /\ IF RestartAccepted(status)
       THEN /\ Room(s, 1)
            /\ sOutput' = [sOutput EXCEPT ![s] = TRUE]
            /\ sDebug' = [sDebug EXCEPT ![s] = t.debug]
            /\ sState' = [sState EXCEPT ![s] = RESTARTING]
            /\ sTasks' = [sTasks EXCEPT ![s] =
                  With(With(Without(@, t), Probe("rest", "restart", t.cb)),
                       Probe("jps", "restart", NoCallback))]
            /\ last' = Ev("restartResponse", s, t, status, NoMsg,
                          <<RESTARTING>>, {"probe"})
       ELSE /\ sTasks' = [sTasks EXCEPT ![s] = Without(@, t)]
            /\ last' = Ev("restartResponse", s, t, status, MsgUnableRestart,
                          <<>>, {})
            /\ UNCHANGED <<sState, sDebug, sOutput>>
    /\ UNCHANGED <<sLive, registryVars, microVars, appVars>>

StopResponse(s, t, status) ==
    /\ s \in DOMAIN sState
    /\ BagIn(t, sTasks[s])
    /\ t.kind = "stop-domain"
    /\ IF StopAccepted(status)
       THEN /\ sState' = [sState EXCEPT ![s] = STOPPED]
            /\ sDebug' = [sDebug EXCEPT ![s] = FALSE]
            /\ sTasks' = [sTasks EXCEPT ![s] = With(Without(@, t), SettleTimer)]
            /\ last' = Ev("stopResponse", s, t, status, NoMsg, <<STOPPED>>, {})
       ELSE /\ sTasks' = [sTasks EXCEPT ![s] = Without(@, t)]
            /\ last' = Ev("stopResponse", s, t, status, NoMsg, <<>>, {})
            /\ UNCHANGED <<sState, sDebug>>
    /\ UNCHANGED <<sOutput, sLive, registryVars, microVars, appVars>>

\* stopServer after its settle delay: disconnectOutput
StopSettled(s) ==
    /\ s \in DOMAIN sState
    /\ BagIn(SettleTimer, sTasks[s])
    /\ sTasks' = [sTasks EXCEPT ![s] = Without(@, SettleTimer)]
    /\ sOutput' = [sOutput EXCEPT ![s] = FALSE]
    /\ last' = Ev("stopSettled", s, SettleTimer, "", NoMsg, <<>>, {"disconnect"})
    /\ UNCHANGED <<sState, sDebug, sLive, registryVars, microVars, appVars>>

(***************************************************************************)
(* The liveness prober: checkAliveStatusUsingRest / checkAliveStatusUsingJPS*)
(* One attempt of a polling probe: alive fires the alive continuation, the *)
(* last unsuccessful attempt fires the timeout continuation, and either    *)
(* ends the probe.                                                         *)
(***************************************************************************)
ProbeVerdict(t, alive) ==
    IF alive THEN "alive"
    ELSE IF t.tries + 1 >= ProbeTries THEN "timeout"
    ELSE "again"

\* a probe that goes on polling after its continuation fired
ProbeKept(tasks, t, verdict) ==
    IF verdict = "again"
    THEN With(Without(tasks, t), [t EXCEPT !.tries = @ + 1])
    ELSE tasks

\* the probes after an attempt of probe t
ProbeAfter(tasks, t, verdict) ==
    IF verdict = "again"
    THEN With(Without(tasks, t), [t EXCEPT !.tries = @ + 1])
    ELSE Without(tasks, t)

(***************************************************************************)
(* The continuations the controller hands to the prober                    *)
(***************************************************************************)
\* continuations that mark the instance started once the probe has ended,
\* whatever it found
ContinuationSetsStarted(t, verdict) ==
    CASE verdict = "again" -> <<>>
      [] t.kind = "rest" -> <<SetStarted(TRUE)>>
      [] t.kind = "jps" /\ t.from \in {"init", "add"} /\ verdict = "alive" ->
             <<SetStarted(TRUE)>>
      [] OTHER -> <<>>

\* the state a continuation sets, if any
ContinuationSets(t, verdict) ==
    CASE verdict = "again" -> <<>>
      [] t.kind = "rest" -> <<SetStarted(verdict = "alive")>>
      [] t.kind = "jps" /\ t.from \in {"init", "add"} /\ verdict = "alive" ->
             <<SetStarted(TRUE)>>
      [] OTHER -> <<>>

\* whether a continuation connects the output sink
ContinuationConnects(t, verdict) ==
    /\ verdict = "alive"
    /\ \/ t.kind = "jps"
       \/ t.kind = "rest" /\ t.from = "restart"

\* the message a continuation shows
ContinuationMsg(t, verdict) ==
    IF t.kind = "rest" /\ verdict = "timeout"
    THEN IF t.from = "start" THEN MsgUnableStart ELSE MsgUnableRestart
    ELSE NoMsg

\* whether a continuation invokes the operation's callback
ContinuationCalls(t, verdict) ==
    t.kind = "rest" /\ verdict # "again" /\ t.cb # NoCallback

ProbePoll(s, t, alive) ==
    /\ s \in DOMAIN sState
    /\ BagIn(t, sTasks[s])
    /\ t.kind \in {"rest", "jps"}
    /\ LET verdict == ProbeVerdict(t, alive)
           sets == ContinuationSets(t, verdict)
           calls == ContinuationCalls(t, verdict)
       IN  /\ sTasks' = [sTasks EXCEPT ![s] = ProbeAfter(@, t, verdict)]
           /\ sState' = [sState EXCEPT ![s] =
                            IF sets = <<>> THEN @ ELSE sets[1]]
           /\ sOutput' = [sOutput EXCEPT ![s] =
                             IF ContinuationConnects(t, verdict) THEN TRUE ELSE @]
           /\ last' = Ev("probe", s, t, verdict,
                         IF calls /\ CalledMsg(t.cb, verdict = "alive") # NoMsg
                         THEN CalledMsg(t.cb, verdict = "alive")
                         ELSE ContinuationMsg(t, verdict),
                         sets,
                         IF calls THEN Called(t.cb, verdict = "alive") ELSE {})
    /\ UNCHANGED <<sDebug, sLive, registryVars, microVars, appVars>>

(***************************************************************************)
(* PayaraInstanceController.deployApp (with selectListedServer)            *)
(***************************************************************************)
\* a deploy that restarts a started server whenever its debug mode is not
\* the requested one
NeedsRestartOnMismatch(s, debug) == debug # sDebug[s]

\* debug && !server.isDebug()
NeedsRestart(s, debug) == debug /\ ~sDebug[s]

DeployApp(s, uri, debug, pid) ==
    /\ s \in DOMAIN sState
    /\ \E k \in 1..Len(servers) : servers[k] = s
    /\ IF ~ServerIsStarted(s)
       THEN /\ ServerIsStopped(s) \/ pid
            /\ StartServerDo(s, debug, uri, pid, "deployApp", uri)
       ELSE IF NeedsRestart(s, debug)
       THEN /\ pid
            /\ RestartServerDo(s, debug, uri, "deployApp", uri)
       ELSE /\ pid
            /\ last' = Ev("deployApp", s, None, uri, NoMsg, <<>>,
                          Called(uri, TRUE))
            /\ UNCHANGED lifeVars
    /\ UNCHANGED <<registryVars, microVars, appVars>>

ServerNext ==
    \/ \E s \in Servers, debug \in BOOLEAN, pid \in BOOLEAN :
           StartServer(s, debug, pid)
    \/ \E s \in Servers : ServerOnExit(s)
    \/ \E s \in Servers, debug \in BOOLEAN : RestartServer(s, debug)
    \/ \E s \in Servers : StopServer(s)
    \/ \E s \in Servers \cap DOMAIN sTasks : \E t \in BagToSet(sTasks[s]), status \in StatusCodes :
           RestartResponse(s, t, status)
    \/ \E s \in Servers \cap DOMAIN sTasks : \E t \in BagToSet(sTasks[s]), status \in StatusCodes :
           StopResponse(s, t, status)
    \/ \E s \in Servers : StopSettled(s)
    \/ \E s \in Servers \cap DOMAIN sTasks : \E t \in BagToSet(sTasks[s]), alive \in BOOLEAN :
           ProbePoll(s, t, alive)
    \/ \E s \in Servers, uri \in Uris, debug \in BOOLEAN, pid \in BOOLEAN :
           DeployApp(s, uri, debug, pid)

\* the extension opened with one server in its configuration: init() has
\* registered it and started its process-table probe
InitServer ==
    /\ mState = <<>>
    /\ mDebug = <<>>
    /\ mHomePage = <<>>
    /\ mProcess = <<>>
    /\ mProcs = <<>>
    /\ servers = <<"s1">>
    /\ sName = [s \in Servers |-> "a"]
    /\ sState = [s \in Servers |-> STOPPED]
    /\ sDebug = [s \in Servers |-> FALSE]
    /\ sOutput = [s \in Servers |-> FALSE]
    /\ sLive = [s \in Servers |-> 0]
    /\ sTasks = [s \in Servers |-> SetToBag({Probe("jps", "init", NoCallback)})]
    /\ sApps = <<>>
    /\ aEnabled = <<>>
    /\ aCalls = <<>>
    /\ wizard = [step |-> "idle", path |-> ""]
    /\ generator = NoGenerator
    /\ builds = <<>>
    /\ last = Ev("init", "", None, "", NoMsg, <<>>, {})

SpecServer == InitServer /\ [][ServerNext]_vars

\* The event loop runs what is pending: a probe that polls for a deploy
\* closure makes its next attempt, and the response of a restart-domain
\* call that carries a deploy closure arrives.
PollFor(from, cb) ==
    \E s \in Servers \cap DOMAIN sTasks :
        \E t \in BagToSet(sTasks[s]), alive \in BOOLEAN :
            /\ t.from = from
            /\ t.cb = cb
            /\ ProbePoll(s, t, alive)

RespondFor(cb) ==
    \E s \in Servers \cap DOMAIN sTasks :
        \E t \in BagToSet(sTasks[s]), status \in StatusCodes :
            /\ t.cb = cb
            /\ RestartResponse(s, t, status)

ServerFairness ==
    \A cb \in Uris :
        /\ WF_vars(RespondFor(cb))
        /\ \A from \in {"start", "restart"} : WF_vars(PollFor(from, cb))

SpecServerLive == SpecServer /\ ServerFairness

(***************************************************************************)
(* The registry of servers.  PayaraInstanceProvider keeps the list; the     *)
(* controller validates the names the user enters.                         *)
(***************************************************************************)
\* the instance objects the controller can create, in the order it creates
\* them
IdPool == <<"s1", "s2", "s3", "s4">>
ServerIds == {IdPool[k] : k \in 1..MaxServers}

\* the names a configuration entry or the user can give; the user can also
\* leave the input empty
Names == {"a", "b"}
Inputs == Names \cup {""}

Undefined == "undefined"

Range(seq) == {seq[k] : k \in 1..Len(seq)}

\* f with key k mapped to v, and f without key k
Put(f, k, v) == [x \in DOMAIN f \cup {k} |-> IF x = k THEN v ELSE f[x]]
Drop(f, k) == [x \in DOMAIN f \ {k} |-> f[x]]

\* PayaraInstanceProvider.getServerByName: the registered instances of
\* that name
GetServerByName(name) == {s \in Range(servers) : sName[s] = name}

\* a validation that only refuses the empty name
ValidateNameNoLookup(name) == IF name = "" THEN MsgNameEmpty ELSE Undefined

\* PayaraInstanceController.validateName: the validation message, or
\* Undefined for a name that is accepted
ValidateName(name) ==
    IF name = "" THEN MsgNameEmpty
    ELSE IF GetServerByName(name) # {} THEN MsgNameExists
    ELSE Undefined

\* PayaraInstanceProvider.addServer registers an instance unless its name
\* is taken
ProviderAccepts(names, name) == \A k \in 1..Len(names) : names[k] # name

\* the names of the registered instances, in the order of the list
ListedNames == [k \in 1..Len(servers) |-> sName[servers[k]]]

\* a new instance registered with its process-table probe polling
Registered(s, name, from) ==
    /\ servers' = Append(servers, s)
    /\ sName' = Put(sName, s, name)
    /\ sState' = Put(sState, s, STOPPED)
    /\ sDebug' = Put(sDebug, s, FALSE)
    /\ sOutput' = Put(sOutput, s, FALSE)
    /\ sLive' = Put(sLive, s, 0)
    /\ sTasks' = Put(sTasks, s, SetToBag({Probe("jps", from, NoCallback)}))

\* what the folder dialog of the wizard's first step can return
\*   "cancel"     the dialog was dismissed (undefined)
\*   "empty"      an empty selection
\*   "nodomains"  a folder that is no server installation and has no
\*                glassfish/domains directory
\*   "noasadmin"  a folder with glassfish/domains, but without asadmin
\*   "valid"      a server installation
Paths == {"cancel", "empty", "nodomains", "noasadmin", "valid"}

\* a wizard waiting in a step, and no wizard
Step(step, path) == [step |-> step, path |-> path]
Idle == Step("idle", "")

\* isValidServerPath
IsValidServerPath(path) == path = "valid"

\* whether selectServer gets to its return statement: serverPaths[0].fsPath
\* throws on an empty selection, readdirSync on a missing directory
SelectServerGoesOn(path) == path \notin {"empty", "nodomains"}

\* addServer with selectServer, the wizard's first step
SelectServer(path) ==
    /\ wizard = Idle
    /\ Len(servers) < MaxServers
    /\ IF path = "cancel"
       THEN /\ wizard' = Idle
            /\ last' = Ev("selectServer", "", None, path, NoMsg, <<>>, {})
       ELSE /\ wizard' = IF SelectServerGoesOn(path)
                         THEN Step("domain", path) ELSE Idle
            /\ last' = Ev("selectServer", "", None, path,
                          IF IsValidServerPath(path) THEN NoMsg
                          ELSE MsgPathInvalid,
                          <<>>,
                          IF SelectServerGoesOn(path) THEN {"next"}
                          ELSE {"threw"})
    /\ UNCHANGED <<servers, sName, generator, builds, lifeVars, microVars,
                   appVars>>

\* selectDomain, the second step: a domain was picked
SelectDomain ==
    /\ wizard.step = "domain"
    /\ wizard' = Step("name", wizard.path)
    /\ last' = Ev("selectDomain", "", None, wizard.path, NoMsg, <<>>,
                  {"next"})
    /\ UNCHANGED <<servers, sName, generator, builds, lifeVars, microVars,
                   appVars>>

\* serverName, the last step, and addServer's callback: the name box was
\* submitted with this input
AddServer(name) ==
    /\ wizard.step = "name"
    /\ Len(servers) < MaxServers
    /\ IF ValidateName(name) # Undefined
       THEN \* the input box shows the message and keeps the input
            /\ last' = Ev("addServer", "", None, name, ValidateName(name),
                          <<>>, {})
            /\ UNCHANGED serverVars
       ELSE IF ~ProviderAccepts(ListedNames, name)
       THEN /\ last' = Ev("addServer", "", None, name, MsgDuplicateName,
                          <<>>, {})
            /\ wizard' = Idle
            /\ UNCHANGED <<servers, sName, lifeVars, appVars>>
       ELSE LET s == CHOOSE x \in ServerIds : x \notin DOMAIN sState
            IN  /\ Registered(s, name, "add")
                /\ wizard' = Idle
                /\ last' = Ev("addServer", s, Probe("jps", "add", NoCallback),
                              name, NoMsg, <<>>, {"registered", "probe"})
                /\ UNCHANGED appVars
    /\ UNCHANGED <<generator, builds, microVars>>

\* renameServer: the input box was submitted with this input
RenameServer(s, name) ==
    /\ s \in Range(servers)
    /\ IF ValidateName(name) # Undefined
       THEN /\ last' = Ev("renameServer", s, None, name, ValidateName(name),
                          <<>>, {})
            /\ UNCHANGED sName
       ELSE /\ sName' = [sName EXCEPT ![s] = name]
            /\ last' = Ev("renameServer", s, None, name, NoMsg, <<>>,
                          {"renamed"})
    /\ UNCHANGED <<servers, wizard, generator, builds, lifeVars, microVars,
                   appVars>>

\* removeServer: the instance leaves the list and is disposed; what its
\* pending callbacks still do reaches no registered instance. The record
\* keeps the state the instance was removed in.
RemoveServer(s) ==
    /\ s \in Range(servers)
    /\ servers' = SelectSeq(servers, LAMBDA x : x # s)
    /\ sName' = Drop(sName, s)
    /\ sState' = Drop(sState, s)
    /\ sDebug' = Drop(sDebug, s)
    /\ sOutput' = Drop(sOutput, s)
    /\ sLive' = Drop(sLive, s)
    /\ sTasks' = Drop(sTasks, s)
    /\ sApps' = Drop(sApps, s)
    /\ aCalls' = Drop(aCalls, s)
    /\ last' = Ev("removeServer", s, None, sState[s], NoMsg, <<>>, {"removed"})
    /\ UNCHANGED <<microVars, aEnabled, wizard, generator, builds>>

RegistryNext ==
    \/ \E path \in Paths : SelectServer(path)
    \/ SelectDomain
    \/ \E name \in Inputs : AddServer(name)
    \/ \E s \in ServerIds, name \in Inputs : RenameServer(s, name)
    \/ \E s \in ServerIds : RemoveServer(s)
    \/ \E s \in ServerIds \cap DOMAIN sTasks : \E t \in BagToSet(sTasks[s]), alive \in BOOLEAN :
           ProbePoll(s, t, alive)

\* the configurations readServerConfig can return: up to MaxServers entries
Configs == UNION {[1..n -> Names] : n \in 0..MaxServers}

\* init(): the names of the entries addServer registers, in order
RECURSIVE Loaded(_)
Loaded(cfg) ==
    IF cfg = <<>> THEN <<>>
    ELSE LET front == Loaded(SubSeq(cfg, 1, Len(cfg) - 1))
         IN  IF ProviderAccepts(front, cfg[Len(cfg)])
             THEN Append(front, cfg[Len(cfg)])
             ELSE front

\* the extension opened: init() has loaded the configuration, and every
\* registered instance has its process-table probe polling
InitRegistry ==
    /\ mState = <<>>
    /\ mDebug = <<>>
    /\ mHomePage = <<>>
    /\ mProcess = <<>>
    /\ mProcs = <<>>
    /\ \E cfg \in Configs :
          LET names == Loaded(cfg)
              ids == {IdPool[k] : k \in 1..Len(names)}
              at(s) == CHOOSE k \in 1..Len(names) : IdPool[k] = s
          IN  /\ servers = [k \in 1..Len(names) |-> IdPool[k]]
              /\ sName = [s \in ids |-> names[at(s)]]
              /\ sState = [s \in ids |-> STOPPED]
              /\ sDebug = [s \in ids |-> FALSE]
              /\ sOutput = [s \in ids |-> FALSE]
              /\ sLive = [s \in ids |-> 0]
              /\ sTasks = [s \in ids |->
                              SetToBag({Probe("jps", "init", NoCallback)})]
    /\ sApps = <<>>
    /\ aEnabled = <<>>
    /\ aCalls = <<>>
    /\ wizard = [step |-> "idle", path |-> ""]
    /\ generator = NoGenerator
    /\ builds = <<>>
    /\ last = Ev("init", "", None, "", NoMsg, <<>>, {})

SpecRegistry == InitRegistry /\ [][RegistryNext]_vars

(***************************************************************************)
(* Applications of a server: undeployApp, enableApp, disableApp.  Each     *)
(* invokes one admin endpoint; the handler of the response registers a     *)
(* 'data' listener when the status is 200, and the listener runs once for  *)
(* every chunk of the response body.  The admin endpoint answers with a    *)
(* body, so a response has at least one chunk.  An ApplicationInstance is  *)
(* an object: its enabled flag outlives its removal from the list.         *)
(***************************************************************************)
\* chunks of one response body
MaxChunks == 2
\* admin calls about applications that are pending at the same time
MaxCalls == 1

Apps == {"x", "y"}

\* a call of an endpoint about an application
\*   phase   "sent": no response yet; "body": 200 received, chunks arriving
AppCall(kind, app, phase, chunks) ==
    [kind |-> kind, app |-> app, phase |-> phase, chunks |-> chunks]

\* a removal by index that does not look whether the application was found:
\* splice(-1, 1) takes the last element
RemoveApplicationSplice(list, app) ==
    IF app \in Range(list) THEN SelectSeq(list, LAMBDA x : x # app)
    ELSE SubSeq(list, 1, Len(list) - 1)

\* PayaraServerInstance.removeApplication: the list without the application
RemoveApplication(list, app) == SelectSeq(list, LAMBDA x : x # app)

\* endpoints.invoke(kind + query, handler)
InvokeApp(s, kind, app) ==
    /\ s \in DOMAIN sApps
    /\ BagCardinality(aCalls[s]) < MaxCalls
    /\ aCalls' = [aCalls EXCEPT ![s] = With(@, AppCall(kind, app, "sent", 0))]
    /\ last' = Ev(kind, s, AppCall(kind, app, "sent", 0), app, NoMsg, <<>>,
                  {"invoke"})
    /\ UNCHANGED <<sApps, aEnabled>>
    /\ UNCHANGED <<registryVars, lifeVars, microVars>>

UndeployApp(s, app) == InvokeApp(s, "undeploy", app)
EnableApp(s, app) == InvokeApp(s, "enable", app)
DisableApp(s, app) == InvokeApp(s, "disable", app)

AppAccepted(status) == status = 200

\* the response handler: registers the 'data' listener on 200, nothing else
AppResponse(s, c, status) ==
    /\ s \in DOMAIN sApps
    /\ BagIn(c, aCalls[s])
    /\ c.phase = "sent"
    /\ aCalls' = [aCalls EXCEPT ![s] =
                     IF AppAccepted(status)
                     THEN With(Without(@, c), [c EXCEPT !.phase = "body"])
                     ELSE Without(@, c)]
    /\ last' = Ev("appResponse", s, c, status, NoMsg, <<>>,
                  IF AppAccepted(status) THEN {"listen"} ELSE {})
    /\ UNCHANGED <<sApps, aEnabled>>
    /\ UNCHANGED <<registryVars, lifeVars, microVars>>

\* the 'data' listener, for one chunk of the body
AppData(s, c) ==
    /\ s \in DOMAIN sApps
    /\ BagIn(c, aCalls[s])
    /\ c.phase = "body"
    /\ c.chunks < MaxChunks
    /\ aCalls' = [aCalls EXCEPT ![s] =
                     With(Without(@, c), [c EXCEPT !.chunks = @ + 1])]
    /\ sApps' = [sApps EXCEPT ![s] =
                    IF c.kind = "undeploy" THEN RemoveApplication(@, c.app)
                    ELSE @]
    /\ aEnabled' = [aEnabled EXCEPT ![c.app] =
                       IF c.kind = "undeploy" THEN @ ELSE c.kind = "enable"]
    /\ last' = Ev("appData", s, [c EXCEPT !.chunks = @ + 1], c.app, NoMsg,
                  <<>>, {"refresh"})
    /\ UNCHANGED <<registryVars, lifeVars, microVars>>

\* the end of a response body: no chunk follows
AppEnd(s, c) ==
    /\ s \in DOMAIN sApps
    /\ BagIn(c, aCalls[s])
    /\ c.phase = "body"
    /\ c.chunks >= 1
    /\ aCalls' = [aCalls EXCEPT ![s] = Without(@, c)]
    /\ last' = Ev("appEnd", s, c, c.app, NoMsg, <<>>, {})
    /\ UNCHANGED <<sApps, aEnabled>>
    /\ UNCHANGED <<registryVars, lifeVars, microVars>>

AppsNext ==
    \/ \E s \in Servers, app \in Apps : UndeployApp(s, app)
    \/ \E s \in Servers, app \in Apps : EnableApp(s, app)
    \/ \E s \in Servers, app \in Apps : DisableApp(s, app)
    \/ \E s \in Servers \cap DOMAIN aCalls : \E c \in BagToSet(aCalls[s]), status \in StatusCodes :
           AppResponse(s, c, status)
    \/ \E s \in Servers \cap DOMAIN aCalls : \E c \in BagToSet(aCalls[s]) : AppData(s, c)
    \/ \E s \in Servers \cap DOMAIN aCalls : \E c \in BagToSet(aCalls[s]) : AppEnd(s, c)
    \/ \E s \in Servers : StopServer(s)
    \/ \E s \in Servers \cap DOMAIN sTasks : \E t \in BagToSet(sTasks[s]), status \in StatusCodes :
           StopResponse(s, t, status)
    \/ \E s \in Servers : StopSettled(s)

\* a running server, in debug mode or not, with its applications loaded
InitApps ==
    /\ mState = <<>>
    /\ mDebug = <<>>
    /\ mHomePage = <<>>
    /\ mProcess = <<>>
    /\ mProcs = <<>>
    /\ servers = <<"s1">>
    /\ sName = [s \in Servers |-> "a"]
    /\ sState = [s \in Servers |-> RUNNING]
    /\ sDebug \in [Servers -> BOOLEAN]
    /\ sOutput = [s \in Servers |-> TRUE]
    /\ sLive = [s \in Servers |-> 0]
    /\ sTasks = [s \in Servers |-> EmptyBag]
    /\ sApps = [s \in Servers |-> <<"x", "y">>]
    /\ aEnabled \in [Apps -> BOOLEAN]
    /\ aCalls = [s \in Servers |-> EmptyBag]
    /\ wizard = [step |-> "idle", path |-> ""]
    /\ generator = NoGenerator
    /\ builds = <<>>
    /\ last = Ev("init", "", None, "", NoMsg, <<>>, {})

SpecApps == InitApps /\ [][AppsNext]_vars

Init == InitMicro \/ InitServer

Next == MicroNext \/ ServerNext

Spec == Init /\ [][Next]_vars

(***************************************************************************)
(* A micro instance and a server side by side.  The handlers of the two    *)
(* interleave freely.  The launcher always spawns, the micro runtime       *)
(* prints nothing, a probe finds the server alive, the admin endpoint      *)
(* answers 200 and the server process does not exit.                       *)
(***************************************************************************)
PairNext ==
    \/ \E i \in Micros : StartMicro(i, TRUE, "ok")
    \/ \E i \in Micros : ReloadMicro(i, "ok")
    \/ \E i \in Micros : StopMicro(i, "ok")
    \/ \E i \in Micros \cap DOMAIN mProcs : \E pr \in BagToSet(mProcs[i]) :
           MicroOnExit(i, pr, 0)
    \/ \E s \in Servers : StartServer(s, FALSE, TRUE)
    \/ \E s \in Servers : RestartServer(s, TRUE)
    \/ \E s \in Servers : StopServer(s)
    \/ \E s \in Servers \cap DOMAIN sTasks : \E t \in BagToSet(sTasks[s]) :
           RestartResponse(s, t, 200)
    \/ \E s \in Servers \cap DOMAIN sTasks : \E t \in BagToSet(sTasks[s]) :
           StopResponse(s, t, 200)
    \/ \E s \in Servers : StopSettled(s)
    \/ \E s \in Servers \cap DOMAIN sTasks : \E t \in BagToSet(sTasks[s]) :
           ProbePoll(s, t, TRUE)

\* the extension opened with a micro project in the workspace and one
\* server, with two applications, in its configuration
InitPair ==
    /\ mState = [i \in Micros |-> STOPPED]
    /\ mDebug = [i \in Micros |-> FALSE]
    /\ mHomePage = [i \in Micros |-> <<>>]
    /\ mProcess = [i \in Micros |-> "undefined"]
    /\ mProcs = [i \in Micros |-> EmptyBag]
    /\ servers = <<"s1">>
    /\ sName = [s \in Servers |-> "a"]
    /\ sState = [s \in Servers |-> STOPPED]
    /\ sDebug = [s \in Servers |-> FALSE]
    /\ sOutput = [s \in Servers |-> FALSE]
    /\ sLive = [s \in Servers |-> 0]
    /\ sTasks = [s \in Servers |-> SetToBag({Probe("jps", "init", NoCallback)})]
    /\ sApps = [s \in Servers |-> <<"x", "y">>]
    /\ aEnabled = [a \in Apps |-> TRUE]
    /\ aCalls = [s \in Servers |-> EmptyBag]
    /\ wizard = [step |-> "idle", path |-> ""]
    /\ generator = NoGenerator
    /\ builds = <<>>
    /\ last = Ev("init", "", None, "", NoMsg, <<>>, {})

SpecPair == InitPair /\ [][PairNext]_vars

(***************************************************************************)
(* PayaraMicroProjectGenerator: the wizard of createProject.  Every step   *)
(* is one prompt; the handler that runs when the prompt is answered stores *)
(* the answer in the partial project and returns the next step.            *)
(***************************************************************************)
DEFAULT_VERSION == "1.0.0-SNAPSHOT"
DEFAULT_ARTIFACT_ID == "payara-micro-sample"
DEFAULT_GROUP_ID == "fish.payara.micro.sample"
DEFAULT_CONTEXT_ROOT == "/"
PAYARA_MICRO_VERSIONS ==
    <<"5.201", "5.194", "5.193.1", "5.192", "5.191",
      "5.184", "5.183", "5.182", "5.181">>

MsgSelectedPathInvalid == "Selected path is invalid."

\* the steps, in the order each returns the next
GeneratorSteps ==
    <<"groupId", "artifactId", "version", "contextRoot", "packageName",
      "payaraMicroVersion", "selectTargetFolder">>

StepIndex(step) == CHOOSE k \in 1..Len(GeneratorSteps) : GeneratorSteps[k] = step

\* what an input box resolves to, and how a prompt can end: with an answer,
\* with the back button, or cancelled
Texts == {"", "x"}
Endings == {"accept", "back", "cancel"}

\* ui.MultiStepInput.run: the wizard after a prompt of this step ended
\* without an answer
StepThrough(g, how) ==
    IF how = "back"
    THEN [g EXCEPT !.step = GeneratorSteps[StepIndex(g.step) - 1]]
    ELSE NoGenerator

\* JavaScript truthiness of a string or undefined
Truthy(value) == value \notin {Undefined, ""}

\* project.<field>, and project.targetFolder (<<>> is undefined, <<p>> a Uri
\* with fsPath p)
Field(project, field) ==
    IF field \in DOMAIN project THEN project[field] ELSE Undefined
TargetFolder(project) ==
    IF "targetFolder" \in DOMAIN project THEN project["targetFolder"] ELSE <<>>

\* createProject: MultiStepInput.run starts with groupId and an empty project
CreateProject ==
    /\ generator.step = "idle"
    /\ generator' = [step |-> GeneratorSteps[1], project |-> <<>>,
                     answered |-> {}, called |-> 0]
    /\ last' = Ev("createProject", "", None, "", NoMsg, <<>>, {})
    /\ UNCHANGED <<microVars, servers, sName, wizard, builds, lifeVars,
                   appVars>>

\* a step with an input box: project.<field> = value ? value : default
InputStep(step, next, field, default, how, value) ==
    /\ generator.step = step
    /\ how = "back" => StepIndex(step) > 1
    /\ how # "accept" => value = ""
    /\ generator' =
          IF how = "accept"
          THEN [generator EXCEPT
                  !.step = next,
                  !.project = Put(@, field,
                                  IF Truthy(value) THEN value ELSE default),
                  !.answered = @ \cup {step}]
          ELSE StepThrough(generator, how)
    /\ last' = Ev(step, "", None, value, NoMsg, <<>>, {how})
    /\ UNCHANGED <<microVars, servers, sName, wizard, builds, lifeVars,
                   appVars>>

GroupId(how, value) ==
    InputStep("groupId", "artifactId", "groupId", DEFAULT_GROUP_ID, how, value)

ArtifactId(how, value) ==
    InputStep("artifactId", "version", "artifactId", DEFAULT_ARTIFACT_ID,
              how, value)

Version(how, value) ==
    InputStep("version", "contextRoot", "version", DEFAULT_VERSION, how, value)

ContextRoot(how, value) ==
    InputStep("contextRoot", "packageName", "contextRoot",
              DEFAULT_CONTEXT_ROOT, how, value)

PackageName(how, value) ==
    InputStep("packageName", "payaraMicroVersion", "package",
              DEFAULT_GROUP_ID, how, value)

\* the quick pick of the runtime version: project.payaraMicroVersion =
\* pick.label
PayaraMicroVersion(how, pick) ==
    /\ generator.step = "payaraMicroVersion"
    /\ how # "accept" => pick = 1
    /\ generator' =
          IF how = "accept"
          THEN [generator EXCEPT
                  !.step = "selectTargetFolder",
                  !.project = Put(@, "payaraMicroVersion",
                                  PAYARA_MICRO_VERSIONS[pick]),
                  !.answered = @ \cup {"payaraMicroVersion"}]
          ELSE StepThrough(generator, how)
    /\ last' = Ev("payaraMicroVersion", "", None, pick, NoMsg, <<>>, {how})
    /\ UNCHANGED <<microVars, servers, sName, wizard, builds, lifeVars,
                   appVars>>

\* what showOpenDialog resolves to: undefined (the dialog was cancelled), or
\* the list of the fsPaths of the selected folders
Selections ==
    {[defined |-> FALSE, uris |-> <<>>]}
      \cup {[defined |-> TRUE, uris |-> u] : u \in {<<>>, <<"">>, <<"dir">>}}

\* a completion callback that generates whatever the project holds
LaunchesAlways(project) == TRUE

\* createProject's completion callback:
\* if (project.targetFolder && project.artifactId)
Launches(project) ==
    TargetFolder(project) # <<>> /\ Truthy(Field(project, "artifactId"))

\* selectTargetFolder, the last step: it returns no next step
SelectTargetFolder(fileUris) ==
    /\ generator.step = "selectTargetFolder"
    /\ IF ~fileUris.defined
       THEN /\ generator' = NoGenerator
            /\ last' = Ev("selectTargetFolder", "", None, fileUris, NoMsg,
                          <<>>, {"cancel"})
       ELSE LET project == Put(generator.project, "targetFolder",
                               IF fileUris.uris = <<>> THEN <<>>
                               ELSE <<fileUris.uris[1]>>)
            IN  /\ generator' = [generator EXCEPT
                                   !.step = "idle",
                                   !.project = project,
                                   !.answered = @ \cup {"selectTargetFolder"},
                                   !.called = @ + 1]
                /\ last' = Ev("selectTargetFolder", "", None, fileUris,
                              IF fileUris.uris = <<>> \/ fileUris.uris[1] = ""
                              THEN MsgSelectedPathInvalid ELSE NoMsg,
                              <<>>,
                              {"callback"}
                                \cup (IF Launches(project)
                                      THEN {"generateMicroProject"} ELSE {}))
    /\ UNCHANGED <<microVars, servers, sName, wizard, builds, lifeVars,
                   appVars>>

GeneratorNext ==
    \/ CreateProject
    \/ \E how \in Endings, value \in Texts : GroupId(how, value)
    \/ \E how \in Endings, value \in Texts : ArtifactId(how, value)
    \/ \E how \in Endings, value \in Texts : Version(how, value)
    \/ \E how \in Endings, value \in Texts : ContextRoot(how, value)
    \/ \E how \in Endings, value \in Texts : PackageName(how, value)
    \/ \E how \in Endings, pick \in 1..Len(PAYARA_MICRO_VERSIONS) :
           PayaraMicroVersion(how, pick)
    \/ \E fileUris \in Selections : SelectTargetFolder(fileUris)

\* the extension opened on a workspace with a Payara Micro project; no
\* wizard runs
SpecGenerator == InitMicro /\ [][GeneratorNext]_vars

(***************************************************************************)
(* Maven.buildProject: `mvn clean install` through fireCommand, and the    *)
(* exit callback that looks for the artifact in the build directory.       *)
(* A file name is the sequence of its parts, so that endsWith looks at the *)
(* last part only; a path is the directory followed by the name.           *)
(***************************************************************************)
MaxBuilds == 2
MaxEntries == 3

\* the entries fs.readdirSync can list in the build directory
FinalName == <<"app">>
FileNames ==
    {<<"app", ".war">>, <<"lib", ".jar">>, FinalName, <<".war", ".bak">>}

RECURSIVE Listings(_)
Listings(n) ==
    IF n = 0 THEN {<<>>}
    ELSE Listings(n - 1)
           \cup {Append(l, f) : l \in {x \in Listings(n - 1) : Len(x) = n - 1},
                                f \in FileNames}

TargetDir == <<"target">>

\* String.endsWith and path.join
EndsWith(name, suffix) == Len(name) > 0 /\ name[Len(name)] = suffix
Join(dir, name) == dir \o name

\* the test of the loop's body
IsArtifactName(name) ==
    \/ EndsWith(name, ".war")
    \/ EndsWith(name, ".jar")
    \/ name = FinalName

\* the loop from entry i on, with the artifact found so far: <<>> is null,
\* <<p>> the path p
RECURSIVE Scan(_, _, _)
Scan(artifacts, i, artifact) ==
    IF i > Len(artifacts) THEN artifact
    ELSE Scan(artifacts, i + 1,
              IF IsArtifactName(artifacts[i])
              THEN <<Join(TargetDir, artifacts[i])>>
              ELSE artifact)

\* a loop that stops at the first artifact
RECURSIVE ScanFirst(_, _)
ScanFirst(artifacts, i) ==
    IF i > Len(artifacts) THEN <<>>
    ELSE IF IsArtifactName(artifacts[i])
    THEN <<Join(TargetDir, artifacts[i])>>
    ELSE ScanFirst(artifacts, i + 1)

FindArtifactFirst(artifacts) == ScanFirst(artifacts, 1)

\* the artifact the exit callback finds in this listing
FindArtifact(artifacts) == Scan(artifacts, 1, <<>>)

MsgNotFound == "null not found."

\* buildProject: fireCommand(["clean", "install"], ...) with this outcome
BuildProject(outcome) ==
    /\ Len(builds) < MaxBuilds
    /\ builds' = IF outcome = "throw" THEN builds
                 ELSE Append(builds, [alive |-> outcome = "ok", calls |-> <<>>])
    /\ last' = Ev("buildProject", "", None, outcome,
                  IF outcome = "throw" THEN MsgThrown ELSE NoMsg, <<>>,
                  CASE outcome = "ok" -> {"spawn"}
                    [] outcome = "nopid" -> {"nopid"}
                    [] OTHER -> {})
    /\ UNCHANGED <<microVars, servers, sName, wizard, generator, lifeVars,
                   appVars>>

\* the 'exit' event of the build's process, with the listing of the build
\* directory at that time
BuildOnExit(b, code, artifacts) ==
    /\ b \in DOMAIN builds
    /\ builds[b].alive
    /\ code # 0 => artifacts = <<>>
    /\ LET artifact == IF code = 0 THEN FindArtifact(artifacts) ELSE <<>>
       IN  /\ builds' = [builds EXCEPT ![b].alive = FALSE,
                                       ![b].calls = @ \o artifact]
           /\ last' = Ev("buildExit", b, None,
                         [code |-> code, artifacts |-> artifacts],
                         IF code = 0 /\ artifact = <<>>
                         THEN MsgNotFound ELSE NoMsg,
                         <<>>,
                         IF artifact # <<>> THEN {"callback"} ELSE {})
    /\ UNCHANGED <<microVars, servers, sName, wizard, generator, lifeVars,
                   appVars>>

\* the 'error' event of the build's process: the error is logged
BuildOnError(b) ==
    /\ b \in DOMAIN builds
    /\ builds[b].alive
    /\ last' = Ev("buildError", b, None, "", NoMsg, <<>>, {})
    /\ UNCHANGED <<microVars, serverVars>>

BuildNext ==
    \/ \E outcome \in FireOutcomes : BuildProject(outcome)
    \/ \E b \in 1..MaxBuilds, code \in {0, 1}, artifacts \in Listings(MaxEntries) :
           BuildOnExit(b, code, artifacts)
    \/ \E b \in 1..MaxBuilds : BuildOnError(b)

\* the extension opened on a workspace with a Maven project; nothing is
\* being built
SpecBuild == InitMicro /\ [][BuildNext]_vars

(***************************************************************************)
(* Properties.  A property of a handler is stated over the step it takes:  *)
(* last' names the handler, the unprimed variables are the state it found. *)
(***************************************************************************)
NotRunningMsgs == {MsgMicroNotRunning, MsgServerNotRunning}

\* the handler of the step is a start request for server s: startServer, or
\* deployApp on a server that is not started
StartRequested(s) ==
    /\ last'.inst = s
    /\ \/ last'.op = "startServer"
       \/ last'.op = "deployApp" /\ ~ServerIsStarted(s)

\* C1: a start request on an instance (micro or server) whose state is not
\* STOPPED spawns no process, leaves the state, the debug flag and the
\* processes of the instance as they are, and shows the 'already running'
\* error.
StartOnRunningRejected ==
    [][ /\ \A i \in DOMAIN mState :
              (last'.op = "startMicro" /\ last'.inst = i /\ ~MicroIsStopped(i))
              => /\ last'.msg = MsgMicroRunning
                 /\ "spawn" \notin last'.did
                 /\ last'.sets = <<>>
                 /\ mState' = mState
                 /\ mDebug' = mDebug
                 /\ mProcs' = mProcs
                 /\ mProcess' = mProcess
        /\ \A s \in DOMAIN sState :
              (StartRequested(s) /\ ~ServerIsStopped(s))
              => /\ last'.msg = MsgServerRunning
                 /\ "spawn" \notin last'.did
                 /\ last'.sets = <<>>
                 /\ sState' = sState
                 /\ sDebug' = sDebug
                 /\ sLive' = sLive
                 /\ sTasks' = sTasks
      ]_vars

\* a start request has just been rejected on a running micro instance
StartOnRunningSeen ==
    /\ last.op = "startMicro"
    /\ last.msg = MsgMicroRunning
    /\ mState[last.inst] = RUNNING

\* C2: when the ready signal of a start is observed (the ready marker in the
\* output of a micro instance's start process; the alive verdict of the
\* probe a server's start began), the state right after is RUNNING and
\* isStopped() is false.
ReadyMeansRunning ==
    [][ /\ \A i \in DOMAIN mState :
              (/\ last'.op = "onData"
               /\ last'.inst = i
               /\ ParseApplicationUrl(last'.arg))
              => /\ mState'[i] = RUNNING
                 /\ ~(MicroIsStopped(i))'
        /\ \A s \in DOMAIN sState :
              (/\ last'.op = "probe"
               /\ last'.inst = s
               /\ last'.proc.kind = "rest"
               /\ last'.proc.from = "start"
               /\ last'.arg = "alive")
              => /\ sState'[s] = RUNNING
                 /\ ~(ServerIsStopped(s))'
      ]_vars

\* the marker has just taken a starting micro instance to RUNNING
ReadySeen ==
    /\ last.op = "onData"
    /\ ParseApplicationUrl(last.arg)
    /\ last.sets = <<RUNNING>>
    /\ mState[last.inst] = RUNNING

StopAgain ==
    /\ last'.op \in {"stopMicro", "stopServer"}
    /\ last'.inst = last.inst

\* the stop request of the step is rejected: the 'not running' error, no
\* stop command and no admin call
StopRejected ==
    /\ last'.msg \in NotRunningMsgs
    /\ last'.did = {}
    /\ mProcs' = mProcs
    /\ sTasks' = sTasks

\* C4 as stated: a stop request right after the completion of a stop of the
\* same instance is rejected, however the first stop ended.
SecondStopRejected ==
    [][ (StopCompleted(last) /\ StopAgain) => StopRejected ]_vars

\* C4: a stop request right after the successful completion of a stop of
\* the same instance (the exit or error callback of the micro stop command,
\* a 200 response of stop-domain) is rejected with the 'not running' error
\* and issues no stop command and no admin call.
SecondStopAfterSuccessRejected ==
    [][ (StopSucceeded(last) /\ StopAgain) => StopRejected ]_vars

\* a stop request has just been rejected right after stop-domain succeeded
SecondStopSeen ==
    /\ last.op = "stopServer"
    /\ last.after = "stop"
    /\ last.msg = MsgServerNotRunning

\* C5: a response of restart-domain other than 200 leaves the state, the
\* debug flag and the output sink of the server as they are, starts no
\* probe, and shows the 'unable to restart' error.
FailedRestartKeepsState ==
    [][ \A s \in DOMAIN sState :
            (/\ last'.op = "restartResponse"
             /\ last'.inst = s
             /\ last'.arg # 200)
            => /\ sState' = sState
               /\ sDebug' = sDebug
               /\ sOutput' = sOutput
               /\ last'.sets = <<>>
               /\ "probe" \notin last'.did
               /\ sTasks'[s] = Without(sTasks[s], last'.proc)
               /\ last'.msg = MsgUnableRestart
      ]_vars

\* restart-domain has just failed on a running server
FailedRestartSeen ==
    /\ last.op = "restartResponse"
    /\ last.arg = 500
    /\ sState[last.inst] = RUNNING

\* no two registered servers have the same name
NamesUnique ==
    \A j, k \in 1..Len(servers) :
        j # k => sName[servers[j]] # sName[servers[k]]

\* C6: whatever was loaded at startup and whatever was added, renamed and
\* removed since, no two registered servers have the same name; adding or
\* renaming with the name of a registered server is refused with a
\* validation message and leaves the list and the names as they are.
RegisteredNamesUnique ==
    /\ []NamesUnique
    /\ [][ (/\ last'.op \in {"addServer", "renameServer"}
            /\ GetServerByName(last'.arg) # {})
           => /\ last'.msg \in {MsgNameExists, MsgDuplicateName}
              /\ servers' = servers
              /\ sName' = sName
         ]_vars

\* an added server was just refused the name of a registered one
DuplicateNameRefused ==
    /\ last.op = "addServer"
    /\ last.msg = MsgNameExists
    /\ GetServerByName(last.arg) # {}

\* the chunk of the scenario: the marker, a newline, the line ' <url>'
UrlChunk == <<ReadyMarker, NL, SP, Url, NL>>

\* C7 as stated: when the start process of a micro instance that is not yet
\* running emits the marker, a newline and the line ' http://localhost:8080',
\* the state becomes RUNNING and the home page is exactly
\* 'http://localhost:8080'.
HomePageIsUrl ==
    [][ \A i \in DOMAIN mState :
            (/\ last'.op = "onData"
             /\ last'.inst = i
             /\ last'.arg = UrlChunk
             /\ ~MicroIsStarted(i))
            => /\ mState'[i] = RUNNING
               /\ mHomePage'[i] = << <<Url>> >>
      ]_vars

\* the chunk of the scenario has just set the home page: the whole line
\* after the marker, with its leading blank
HomePageKeepsBlank ==
    /\ last.op = "onData"
    /\ last.arg = UrlChunk
    /\ last.sets = <<RUNNING>>
    /\ mHomePage[last.inst] = << <<SP, Url>> >>

\* C8: deployApp on a STOPPED server calls startServer and uploads nothing
\* itself; the probe of that start uploads exactly when its verdict is
\* alive, through callback(true); on timeout it calls callback(false),
\* which shows the 'unable to deploy' error and uploads nothing; the
\* closure goes with the probe, so it is never called again.
UploadOnlyAfterStart ==
    [][ \A s \in DOMAIN sState :
            last'.inst = s
            => /\ (last'.op = "deployApp" /\ ServerIsStopped(s))
                  => /\ last'.did \cap Uploads = {}
                     /\ last'.did \in {{"spawn", "probe"}, {"nopid"}}
                     /\ "spawn" \in last'.did
                        => /\ sState'[s] = LODING
                           /\ last'.proc = Probe("rest", "start", last'.arg)
                           /\ sTasks'[s] = With(sTasks[s], last'.proc)
               /\ (/\ last'.op = "probe"
                   /\ last'.proc.from = "start"
                   /\ last'.proc.cb # NoCallback)
                  => /\ last'.did \cap Uploads # {} <=> last'.arg = "alive"
                     /\ last'.arg = "alive" => "callback(true)" \in last'.did
                     /\ last'.arg = "timeout"
                        => /\ "callback(false)" \in last'.did
                           /\ last'.msg = MsgUnableDeploy
                     /\ last'.arg = "again" => last'.did = {}
                     /\ last'.arg # "again"
                        => sTasks'[s] = Without(sTasks[s], last'.proc)
      ]_vars

\* the start a deploy triggered has just timed out and the deploy aborted
DeployAborted ==
    /\ last.op = "probe"
    /\ last.proc.from = "start"
    /\ last.proc.cb = "app.war"
    /\ last.arg = "timeout"
    /\ last.msg = MsgUnableDeploy
    /\ last.did = {"callback(false)"}

\* every polling probe has attempts left before its deadline
ProbesBounded ==
    \A s \in DOMAIN sTasks :
        \A t \in BagToSet(sTasks[s]) :
            t.kind \in {"rest", "jps"} => t.tries < ProbeTries

Changes(pre, sets) ==
    LET path == <<pre>> \o sets
    IN  {<<path[k], path[k + 1]>> : k \in {j \in 1..Len(sets) :
                                              path[j] # path[j + 1]}}

ListedEdges ==
    {<<STOPPED, LODING>>, <<LODING, RUNNING>>, <<RUNNING, STOPPED>>,
     <<RUNNING, RESTARTING>>, <<RESTARTING, RUNNING>>,
     <<RESTARTING, STOPPED>>}

\* the state changes the handlers of a micro instance and of a server make
MicroEdges ==
    {e \in {STOPPED, LODING, RUNNING} \X {STOPPED, LODING, RUNNING} :
        e[1] # e[2]}
ServerEdges ==
    ListedEdges \cup {<<LODING, STOPPED>>, <<STOPPED, RUNNING>>,
                      <<LODING, RESTARTING>>, <<STOPPED, RESTARTING>>}

AllStopped ==
    /\ \A i \in DOMAIN mState : mState[i] = STOPPED
    /\ \A s \in DOMAIN sState : sState[s] = STOPPED

\* the state changes of the step stay within the edges, and the state after
\* the step is the last state the handler set
StepWithin(microEdges, serverEdges) ==
    /\ \A i \in DOMAIN mState :
           /\ last'.inst = i => Changes(mState[i], last'.sets) \subseteq microEdges
           /\ mState'[i] = IF last'.inst = i /\ last'.sets # <<>>
                           THEN last'.sets[Len(last'.sets)] ELSE mState[i]
    /\ \A s \in DOMAIN sState :
           /\ last'.inst = s => Changes(sState[s], last'.sets) \subseteq serverEdges
           /\ sState'[s] = IF last'.inst = s /\ last'.sets # <<>>
                           THEN last'.sets[Len(last'.sets)] ELSE sState[s]

HandleIffNotStopped ==
    \A i \in DOMAIN mState :
        (mProcess[i] # "undefined") <=> (mState[i] # STOPPED)

\* a start whose launcher threw has just left the instance LOADING without
\* a process handle
LoadingWithoutHandle ==
    /\ last.op = "startMicro"
    /\ last.msg = MsgThrown
    /\ mState[last.inst] = LODING
    /\ mProcess[last.inst] = "undefined"

\* a start, stop or restart of the instance is in flight: a micro instance
\* is LOADING or one of its stop commands still runs; a server has an admin
\* call without response or a probe of a start or restart polling
InFlight(i) ==
    IF i \in DOMAIN mState
    THEN \/ mState[i] = LODING
         \/ \E pr \in BagToSet(mProcs[i]) : pr.kind = "stop"
    ELSE \E t \in BagToSet(sTasks[i]) :
            \/ t.kind \in {"restart-domain", "stop-domain"}
            \/ t.kind = "rest"

\* C12 as stated: a start, stop or restart request that arrives while a
\* start, stop or restart of the same instance is in flight is rejected
\* with an error, launches no process and issues no admin call.
OneOperationInFlight ==
    [][ \A i \in DOMAIN mState \cup DOMAIN sState :
            (/\ last'.inst = i
             /\ last'.op \in {"startMicro", "stopMicro", "startServer",
                              "stopServer", "restartServer"}
             /\ InFlight(i))
            => /\ last'.msg \in NotRunningMsgs
                                 \cup {MsgMicroRunning, MsgServerRunning}
               /\ last'.did = {}
      ]_vars

\* a second stop-domain call has just been issued while the first has no
\* response yet
TwoStopsInFlight ==
    /\ last.op = "stopServer"
    /\ "invoke" \in last.did
    /\ CopiesIn(last.proc, sTasks[last.inst]) = 2

\* the last step was a start whose launch failed: the launcher threw, the
\* spawn gave no process id, or the 'error' event of the start process fired
LaunchFailed ==
    \/ /\ last.op = "startMicro"
       /\ last.msg = MsgThrown \/ "nopid" \in last.did
    \/ /\ last.op = "onError"
       /\ last.proc # None
       /\ last.proc.kind = "start"

\* C13 as stated: whenever the launch of a start fails, the instance ends
\* in STOPPED and does not remain LOADING.
FailedLaunchStops ==
    LaunchFailed => mState[last.inst] = STOPPED

\* a start whose spawn gave no process id has just left the instance LOADING
\* with no callback registered
LoadingNeverSpawned ==
    /\ last.op = "startMicro"
    /\ "nopid" \in last.did
    /\ mState[last.inst] = LODING
    /\ mProcs[last.inst] = EmptyBag

\* C14 as stated: for every process launched through fireCommand exactly
\* one of the exit and the error callback fires, exactly once, also when the
\* spawn fails: a launch that returned leaves a process with its callbacks
\* registered, and a callback that fired cannot fire again.
OneCallbackPerLaunch ==
    /\ [](\A i \in DOMAIN mState :
            (last.inst = i /\ last.did \cap {"spawn", "nopid"} # {})
            => mProcs[i] # EmptyBag)
    /\ [][ \A i \in DOMAIN mState :
             (last'.inst = i /\ last'.op \in {"onExit", "onError"})
             => CopiesIn(last'.proc, mProcs'[i])
                    < CopiesIn(last'.proc, mProcs[i])
         ]_vars

\* the error callback of a process has fired and its exit callback can
\* still fire
ErrorThenStillListening ==
    /\ last.inst \in DOMAIN mState
    /\ last.op = "onError"
    /\ BagIn(last.proc, mProcs[last.inst])

\* what deployApp does on a started server, given whether it restarts
\* first: a restart issues the restart-domain call that carries the deploy
\* closure and uploads nothing; otherwise the closure uploads at once and
\* nothing of the instance changes. The probe of such a restart uploads
\* exactly when its verdict is alive.
DeployOnStarted(s, uri, debug, restarts) ==
    /\ IF restarts
       THEN /\ last'.did = {"invoke"}
            /\ last'.proc = AdminCall("restart-domain", debug, uri)
            /\ sTasks'[s] = With(sTasks[s], last'.proc)
            /\ UNCHANGED <<sState, sDebug, sOutput, sLive>>
       ELSE /\ last'.did = {"callback(true)", DeployOutcome(uri, TRUE)}
            /\ UNCHANGED lifeVars

RestartProbeDeploys ==
    (/\ last'.op = "probe"
     /\ last'.proc.from = "restart"
     /\ last'.proc.cb # NoCallback)
    => (last'.did \cap Uploads # {} <=> last'.arg = "alive")

\* C15 as stated: a deploy to a started server whose debug mode differs
\* from the requested one, in either direction, restarts it first and
\* deploys from the restart's callback; when the modes match it deploys
\* directly.
DeployRestartsOnAnyMismatch ==
    [][ /\ \A s \in Servers, uri \in Uris, debug \in BOOLEAN, pid \in BOOLEAN :
              (ServerIsStarted(s) /\ DeployApp(s, uri, debug, pid))
              => DeployOnStarted(s, uri, debug, debug # sDebug[s])
        /\ RestartProbeDeploys
      ]_vars

\* C15, amended: the restart happens only when debug is requested and the
\* server is not in debug mode; a deploy without debug to a server in
\* debug mode deploys directly.
DeployRestartsForDebugOnly ==
    [][ /\ \A s \in Servers, uri \in Uris, debug \in BOOLEAN, pid \in BOOLEAN :
              (ServerIsStarted(s) /\ DeployApp(s, uri, debug, pid))
              => DeployOnStarted(s, uri, debug, debug /\ ~sDebug[s])
        /\ RestartProbeDeploys
      ]_vars

\* the restart a deploy asked for has completed and its callback uploads
DeployAfterRestart ==
    /\ last.op = "probe"
    /\ last.proc.from = "restart"
    /\ last.proc.cb # NoCallback
    /\ last.arg = "alive"
    /\ last.did \cap Uploads # {}
    /\ sDebug[last.inst]

\* C16 as stated: after a successful stop the state is set to STOPPED and
\* the debug flag cleared, then the settle delay elapses, then the output
\* sink is disconnected; the sink is never disconnected while the state is
\* not STOPPED because of this stop.
DisconnectOnlyWhileStopped ==
    /\ [][ \A s \in DOMAIN sState :
             (last'.inst = s /\ last'.op = "stopResponse" /\ last'.arg = 200)
             => /\ sState'[s] = STOPPED
                /\ ~sDebug'[s]
                /\ sOutput'[s] = sOutput[s]
                /\ BagIn(SettleTimer, sTasks'[s])
         ]_vars
    /\ [](\A s \in DOMAIN sState :
             (last.inst = s /\ "disconnect" \in last.did)
             => sState[s] = STOPPED /\ ~sDebug[s])

\* the settle delay of a stop has just run out and disconnected the output
\* of a server that was started again in the meantime
DisconnectedWhileLoading ==
    /\ last.op = "stopSettled"
    /\ "disconnect" \in last.did
    /\ sState[last.inst] = LODING
    /\ ~sOutput[last.inst]

\* C18: when the liveness probe of a start or restart times out, the
\* instance is marked not started (STOPPED), an error is shown ('unable to
\* start' or 'unable to restart'; with a deploy closure its 'unable to
\* deploy' comes first), the callback, if any, is called with false and
\* uploads nothing, and the spawned process is left alone.
TimeoutMarksStopped ==
    [][ \A s \in DOMAIN sState :
            (/\ last'.inst = s
             /\ last'.op = "probe"
             /\ last'.proc.kind = "rest"
             /\ last'.arg = "timeout")
            => /\ last'.proc.from \in {"start", "restart"}
               /\ sState'[s] = STOPPED
               /\ last'.sets = <<STOPPED>>
               /\ IF last'.proc.cb = NoCallback
                  THEN /\ last'.did = {}
                       /\ last'.msg = IF last'.proc.from = "start"
                                      THEN MsgUnableStart
                                      ELSE MsgUnableRestart
                  ELSE /\ last'.did = {"callback(false)"}
                       /\ last'.msg = MsgUnableDeploy
               /\ sLive'[s] = sLive[s]
               /\ sDebug'[s] = sDebug[s]
               /\ sOutput'[s] = sOutput[s]
      ]_vars

\* the probe of a restart has just timed out with the server process the
\* extension spawned still alive
RestartTimedOutProcessKept ==
    /\ last.op = "probe"
    /\ last.proc.kind = "rest"
    /\ last.proc.from = "restart"
    /\ last.arg = "timeout"
    /\ last.msg = MsgUnableRestart
    /\ sState[last.inst] = STOPPED
    /\ sLive[last.inst] > 0

\* C19 as stated: removing an instance first forces a stop: an instance
\* that is LOADING, RUNNING or RESTARTING is not deregistered and disposed
\* unless a stop has been issued for it.
RemoveStopsFirst ==
    [][ \A s \in DOMAIN sState :
            (last'.op = "removeServer" /\ last'.inst = s)
            => \/ sState[s] = STOPPED
               \/ \E t \in BagToSet(sTasks[s]) : t.kind = "stop-domain"
      ]_vars

\* a server that was running has just been removed from the registry
RunningServerRemoved ==
    /\ last.op = "removeServer"
    /\ last.arg = RUNNING
    /\ last.inst \notin DOMAIN sState
    /\ last.inst \notin Range(servers)

\* C17: when the admin call of a stop, undeploy, enable or disable is
\* answered with a status other than 200, the state of the instance, its
\* debug flag, its list of applications and every enabled flag stay as they
\* are, and nothing is left behind that could change them later: no settle
\* timer, no 'data' listener.
FailedCallChangesNothing ==
    [][ \A s \in DOMAIN sState :
            (/\ last'.inst = s
             /\ last'.op \in {"stopResponse", "appResponse"}
             /\ last'.arg # 200)
            => /\ sState'[s] = sState[s]
               /\ sDebug'[s] = sDebug[s]
               /\ sOutput'[s] = sOutput[s]
               /\ sApps' = sApps
               /\ aEnabled' = aEnabled
               /\ last'.sets = <<>>
               /\ last'.did = {}
               /\ IF last'.op = "stopResponse"
                  THEN /\ sTasks'[s] = Without(sTasks[s], last'.proc)
                       /\ aCalls' = aCalls
                  ELSE /\ aCalls'[s] = Without(aCalls[s], last'.proc)
                       /\ sTasks' = sTasks
      ]_vars

\* stop-domain has just been refused for a running server in debug mode
\* whose applications are all listed
FailedStopSeen ==
    /\ last.op = "stopResponse"
    /\ last.arg = 500
    /\ sState[last.inst] = RUNNING
    /\ sDebug[last.inst]
    /\ sApps[last.inst] = <<"x", "y">>
    /\ sTasks[last.inst] = EmptyBag

\* no application is listed twice
AppsListedOnce ==
    \A s \in DOMAIN sApps :
        \A j, k \in 1..Len(sApps[s]) : sApps[s][j] = sApps[s][k] => j = k

ValidationMsgs ==
    {MsgPathInvalid, MsgNameEmpty, MsgNameExists, MsgDuplicateName}

\* C21 as stated: when the input is invalid (empty or duplicate name, or a
\* path that is no server installation) the error is shown and the wizard
\* goes no further: no later step runs, no instance is created, the
\* registry stays as it is.
InvalidInputAborts ==
    /\ [][ (/\ last'.op \in {"selectServer", "addServer"}
            /\ last'.msg \in ValidationMsgs)
           => /\ servers' = servers
              /\ sName' = sName
              /\ sState' = sState
              /\ last'.op = "selectServer" => wizard' = Idle
              /\ last'.op = "addServer" => wizard'.step \in {"name", "idle"}
         ]_vars
    /\ [](wizard.step \in {"domain", "name"}
            => IsValidServerPath(wizard.path))

\* the wizard has gone on to its name step with a folder that is no server
\* installation
NameStepWithInvalidPath ==
    /\ last.op = "selectDomain"
    /\ wizard.step = "name"
    /\ ~IsValidServerPath(wizard.path)

\* C22: the exit of the process a start launched sets the instance to
\* STOPPED, unless the instance is RESTARTING at that moment: then the
\* state stays as it is.  A micro instance is never RESTARTING, so the exit
\* of its start process always sets STOPPED.
ExitStopsUnlessRestarting ==
    [][ /\ \A s \in DOMAIN sState :
              (last'.inst = s /\ last'.op = "serverExit")
              => IF sState[s] = RESTARTING
                 THEN sState'[s] = RESTARTING /\ last'.sets = <<>>
                 ELSE sState'[s] = STOPPED /\ last'.sets = <<STOPPED>>
        /\ \A i \in DOMAIN mState :
              (/\ last'.inst = i
               /\ last'.op = "onExit"
               /\ last'.proc.kind = "start")
              => /\ mState[i] # RESTARTING
                 /\ mState'[i] = STOPPED
      ]_vars

\* the server process has just exited during a restart and the state is
\* still RESTARTING
ExitDuringRestart ==
    /\ last.op = "serverExit"
    /\ last.sets = <<>>
    /\ sState[last.inst] = RESTARTING

\* C23 as stated: reload on a STOPPED micro instance is rejected with an
\* error, launches no process and leaves the state as it is; an accepted
\* reload has the state back at RUNNING when the reload command ends,
\* whatever its exit code, and at once when the command cannot be spawned
\* or reload is not supported.
ReloadRestoresRunning ==
    [][ \A i \in DOMAIN mState :
            last'.inst = i
            => /\ (last'.op = "reloadMicro" /\ mState[i] = STOPPED)
                  => /\ last'.msg = MsgMicroNotRunning
                     /\ last'.did = {}
                     /\ mState'[i] = STOPPED
                     /\ mProcs'[i] = mProcs[i]
               /\ (last'.op = "reloadMicro" /\ mState[i] # STOPPED)
                  => IF "spawn" \in last'.did
                     THEN mState'[i] = LODING
                     ELSE mState'[i] = RUNNING
               /\ (/\ last'.op \in {"onExit", "onError"}
                   /\ last'.proc.kind = "reload")
                  => mState'[i] = RUNNING
      ]_vars

\* a reload whose command could not be spawned has just left the instance
\* LOADING with no callback to restore RUNNING
ReloadStuckLoading ==
    /\ last.op = "reloadMicro"
    /\ "nopid" \in last.did
    /\ mState[last.inst] = LODING
    /\ \A pr \in BagToSet(mProcs[last.inst]) : pr.kind # "reload"

\* C24 as stated: a stop cannot cancel a start in progress: the stop
\* request leaves a LOADING instance LOADING, and so does the completion of
\* a stop; LOADING is left only for RUNNING or when the instance's own
\* process fails or exits.
StopNeverCancelsStart ==
    [][ /\ \A i \in DOMAIN mState :
              (/\ last'.inst = i
               /\ mState[i] = LODING
               /\ last'.op = "stopMicro" \/ StopCompleted(last'))
              => mState'[i] = LODING
        /\ \A s \in DOMAIN sState :
              (/\ last'.inst = s
               /\ sState[s] = LODING
               /\ last'.op = "stopServer" \/ StopCompleted(last'))
              => sState'[s] = LODING
      ]_vars

\* the exit callback of a stop command has just set a micro instance to
\* STOPPED whose start process never reported ready
StartCancelledByStop ==
    /\ last.inst \in DOMAIN mState
    /\ last.op = "onExit"
    /\ last.proc.kind = "stop"
    /\ mState[last.inst] = STOPPED
    /\ \E pr \in BagToSet(mProcs[last.inst]) : pr.kind = "start" /\ ~pr.ran

\* C25: the debugger is attached by a chunk of a start process exactly when
\* the chunk holds the debug marker, the instance is not RUNNING and the
\* debug configuration of that start is still set; attaching clears it, and
\* nothing sets it again, so a start attaches at most once; a start
\* requested without debug has no debug configuration and never attaches.
AttachOncePerDebugStart ==
    [][ \A i \in DOMAIN mState :
            last'.inst = i
            => /\ (last'.op = "startMicro" /\ "spawn" \in last'.did)
                  => last'.proc.dc = last'.arg
               /\ last'.op = "onData"
                  => LET pr == last'.proc
                         new == BagToSet(mProcs'[i]) \ BagToSet(mProcs[i])
                     IN  /\ "attach" \in last'.did
                            <=> /\ pr.dc
                                /\ mState[i] # RUNNING
                                /\ IndexOf(last'.arg, DebugMarker) > -1
                         /\ \A r \in new :
                               /\ r.dc => pr.dc
                               /\ "attach" \in last'.did => ~r.dc
               /\ last'.op # "onData" => "attach" \notin last'.did
      ]_vars

\* the debug marker has just appeared again in the output of a start that
\* had attached the debugger before, and nothing was attached
MarkerAgainNoAttach ==
    /\ last.op = "onData"
    /\ IndexOf(last.arg, DebugMarker) > -1
    /\ ~last.proc.dc
    /\ mDebug[last.inst]
    /\ mState[last.inst] # RUNNING
    /\ "attach" \notin last.did

\* a restart of the server has set RESTARTING and a probe it started is
\* still polling
RestartProbing(s) == \E t \in BagToSet(sTasks[s]) : t.from = "restart"

\* C26 as stated: the first probe continuation of a restart decides the
\* transition out of RESTARTING; a probe continuation or a process-exit
\* callback of that restart that fires once the state has left RESTARTING
\* does not change the state.
LateRestartCallbacksIgnored ==
    [][ \A s \in DOMAIN sState :
            (/\ last'.inst = s
             /\ RestartProbing(s)
             /\ sState[s] # RESTARTING
             /\ \/ last'.op = "serverExit"
                \/ last'.op = "probe" /\ last'.proc.from = "restart")
            => sState'[s] = sState[s]
      ]_vars

\* the probe of a restart found the server alive, and the exit of the old
\* process has then set the instance to STOPPED while the restart's other
\* probe still polls
ExitAfterRestartStops ==
    /\ last.op = "serverExit"
    /\ last.sets = <<STOPPED>>
    /\ sState[last.inst] = STOPPED
    /\ sOutput[last.inst]
    /\ RestartProbing(last.inst)

RunningOnlyAfterProbe ==
    [][ \A s \in DOMAIN sState :
          (sState[s] # RUNNING /\ sState'[s] = RUNNING)
          => /\ last'.op = "probe"
             /\ last'.inst = s
             /\ last'.arg = "alive"
             /\ last'.proc.kind \in {"rest", "jps"}
      ]_vars

\* an admin-endpoint probe of a start has just found the server alive and
\* the server is RUNNING
StartProbeConfirmed ==
    /\ last.op = "probe"
    /\ last.arg = "alive"
    /\ last.proc.kind = "rest"
    /\ last.proc.from = "start"
    /\ sState[last.inst] = RUNNING

\* C29: a callback of a process launched by an earlier start leaves the
\* state that a later start established: an exit or error event of a start
\* process whose handle a later startMicro has replaced does not change the
\* state of the instance.
EarlierStartCallbacksIgnored ==
    [][ \A i \in DOMAIN mState :
          ( /\ last'.inst = i
            /\ last'.op \in {"onExit", "onError"}
            /\ last'.proc.kind = "start"
            /\ ~last'.proc.cur )
          => mState'[i] = mState[i]
      ]_vars

\* the exit of the process of an earlier start has just set the instance
\* STOPPED while the process of the later start is alive
OldExitStopsNewStart ==
    /\ last.op = "onExit"
    /\ last.proc.kind = "start"
    /\ ~last.proc.cur
    /\ mState[last.inst] = STOPPED
    /\ \E pr \in BagToSet(mProcs[last.inst]) : pr.kind = "start" /\ pr.cur

\* C30: a micro instance that is RUNNING has its runtime process alive:
\* whenever the instance holds the handle of a process that its start
\* spawned and its state is RUNNING, that process has not exited.
RunningMicroIsAlive ==
    \A i \in DOMAIN mState :
        (mState[i] = RUNNING /\ mProcess[i] = "pid")
        => \E pr \in BagToSet(mProcs[i]) : pr.kind = "start" /\ pr.cur

\* the reload command has just ended and set the instance RUNNING after
\* the process of its start has exited
ReloadEndsAfterExit ==
    /\ last.op = "onExit"
    /\ last.proc.kind = "reload"
    /\ mState[last.inst] = RUNNING
    /\ mProcess[last.inst] = "pid"
    /\ mProcs[last.inst] = EmptyBag

\* the deploy closure of deployApp(u) has just been invoked: by deployApp
\* itself, or by the continuation of the probe that carried it
DeployCalls == {"callback(true)", "callback(false)"}

DeployAnswered(u) ==
    /\ last.did \cap DeployCalls # {}
    /\ \/ last.op = "deployApp" /\ last.arg = u
       \/ last.op = "probe" /\ last.proc.cb = u

\* C31: every deploy request is eventually answered: after deployApp(u) on
\* the selected server, the deploy closure is eventually invoked, with true
\* (the upload is attempted) or with false (the error is shown), whatever
\* the state of the server at the request, whether or not the spawn yields
\* a process id, and whatever the restart-domain call answers.
DeployEventuallyAnswered ==
    \A u \in Uris :
        (last.op = "deployApp" /\ last.arg = u) ~> DeployAnswered(u)

\* a deploy on a stopped server has just spawned a process with no pid:
\* nothing is shown, and no probe or call holds the deploy closure
DeployDroppedSilently ==
    /\ last.op = "deployApp"
    /\ last.did = {"nopid"}
    /\ last.msg = NoMsg
    /\ \A t \in BagToSet(sTasks[last.inst]) : t.cb = NoCallback

\* the fields of the project that the input boxes fill
TextFields == {"groupId", "artifactId", "version", "contextRoot", "package"}

\* C32: the project wizard starts with the group id and every answered
\* prompt is followed by the next step of the fixed order (group id,
\* artifact id, version, context root, package name, runtime version,
\* target folder); the completion callback is invoked at most once in a
\* run, by the target-folder step and after every step was answered, with
\* group id, artifact id, version, context root and package all non-empty;
\* the generation is launched only by that callback and only with a
\* selected folder, never when the dialog was cancelled or returned an
\* empty selection.
WizardOrderAndCompletion ==
    /\ [](generator.called <= 1)
    /\ [][ /\ last'.op = "createProject"
              => generator'.step = GeneratorSteps[1]
           /\ last'.did = {"accept"}
              => /\ last'.op = generator.step
                 /\ generator'.step =
                       GeneratorSteps[StepIndex(generator.step) + 1]
           /\ "callback" \in last'.did
              => /\ generator.step = GeneratorSteps[Len(GeneratorSteps)]
                 /\ generator'.step = "idle"
                 /\ generator'.answered = Range(GeneratorSteps)
                 /\ generator'.called = 1
                 /\ \A f \in TextFields :
                        Truthy(Field(generator'.project, f))
           /\ generator'.called # generator.called
              => "callback" \in last'.did \/ last'.op = "createProject"
           /\ "generateMicroProject" \in last'.did
              => /\ "callback" \in last'.did
                 /\ last'.arg.defined
                 /\ last'.arg.uris # <<>>
                 /\ TargetFolder(generator'.project) # <<>>
         ]_vars

\* the wizard has just completed and launched the generation, for a project
\* whose group id was left empty and whose artifact id was entered
GeneratedWithDefaultGroup ==
    /\ last.op = "selectTargetFolder"
    /\ last.did = {"callback", "generateMicroProject"}
    /\ Field(generator.project, "groupId") = DEFAULT_GROUP_ID
    /\ Field(generator.project, "artifactId") = "x"
    /\ TargetFolder(generator.project) = <<"dir">>

\* the positions of a listing that hold an artifact: a name ending in .war
\* or .jar, or the final name
ArtifactPositions(artifacts) ==
    {k \in 1..Len(artifacts) : IsArtifactName(artifacts[k])}

LastPosition(positions) == CHOOSE k \in positions : \A j \in positions : j <= k

\* C33: buildProject calls its artifact callback at most once per build,
\* and only from the exit of the build's process with code 0 when the
\* build directory lists at least one artifact; it passes the path of the
\* last artifact of the listing; an exit with another code, an error event
\* and a failed spawn never call it.
ArtifactCallbackOnSuccessOnly ==
    /\ [](\A b \in DOMAIN builds : Len(builds[b].calls) <= 1)
    /\ [][ /\ \A b \in DOMAIN builds :
                builds'[b].calls # builds[b].calls
                => /\ last'.op = "buildExit"
                   /\ last'.inst = b
                   /\ builds[b].alive /\ ~builds'[b].alive
                   /\ last'.arg.code = 0
                   /\ ArtifactPositions(last'.arg.artifacts) # {}
                   /\ builds'[b].calls =
                        << Join(TargetDir,
                                last'.arg.artifacts[LastPosition(
                                    ArtifactPositions(last'.arg.artifacts))]) >>
           /\ \A b \in DOMAIN builds' \ DOMAIN builds :
                builds'[b].calls = <<>>
           /\ last'.op \in {"buildError", "buildProject"}
              => "callback" \notin last'.did
           /\ (last'.op = "buildExit" /\ last'.arg.code # 0)
              => "callback" \notin last'.did
         ]_vars

\* a build has just exited with code 0 on a directory that lists two
\* artifacts and then another entry, and the callback got the second one
SecondOfTwoArtifactsPassed ==
    /\ last.op = "buildExit"
    /\ last.arg.code = 0
    /\ last.arg.artifacts = << <<"lib", ".jar">>, <<"app", ".war">>,
                               <<".war", ".bak">> >>
    /\ builds[last.inst].calls = << <<"target", "app", ".war">> >>

====
